---- MODULE Spec2Model ----
(***************************************************************************)
(* Release engine of probot-release (src/lib/index.js): the tag cache,     *)
(* the status evaluator, the debounced release scheduler and the three     *)
(* webhook handlers (create, delete, status), as a state machine.          *)
(*                                                                         *)
(* Every handler is an async function: it runs synchronously up to its     *)
(* next `await`, so one action of the model is one such synchronous        *)
(* stretch (the continuation of one await up to the next await), and the   *)
(* handlers of different events interleave at their awaits.                *)
(*                                                                         *)
(* The hosting provider is the environment: it holds the repository's      *)
(* tags and the commits' statuses, and answers a request with the state it *)
(* has when it answers.                                                    *)
(***************************************************************************)
EXTENDS Integers, Sequences, FiniteSets, TLC

VARIABLES
  repoConfig,         \* contents of release.yml in the repository (environment)
  srvTags,            \* hosting provider: ref -> sha the tag points to, or NoSha
  srvStatuses,        \* hosting provider: sha -> statuses of the commit, newest first
  nEvents,            \* number of webhook events delivered so far
  handlers,           \* one record per delivered event: the running async handler
  tagCache,           \* index.js:42   repo -> promise of the tag list (0: not set)
  loads,              \* the promises created by getTags: paginated retrievals
  scheduledReleases,  \* index.js:37   id -> timer handle (0: not set)
  timers,             \* the runtime's timers created by setTimeout, by handle
  dispatches,         \* the performRelease calls started by timer callbacks
  sinceEvent,         \* history: time since the latest event for the id (capped)
  sinceDispatch,      \* history: time since the latest dispatch start for the id (capped)
  lastAdd,            \* history: ref -> sha of the most recently completed addTag
  release,            \* one performRelease call, target by target (index.js:269-293)
  targetRun,          \* one run of a target's driver: its log statements and its effects
  evaluation,         \* the status evaluator on one status list (index.js:243-253, 332-355)
  publish,            \* one call of getPublishOrder (cargo.js:125-143)
  spawned,            \* two calls of spawn and the objects they hold (utils.js:115-178)
  tempDirs,           \* withTempDir calls and the directories on disk (files.js:45-52)
  stores,             \* store instances, their file caches and the remote listing
                      \* (stores/index.js:50-143, 218-324)
  downloads,          \* file downloads of one store instance (stores/index.js:65-101, 233-273)
  targetCalls,        \* runTarget calls on one caller context, and the objects (part_002:22-37)
  lookups,            \* lookups on the hosting API and their responses (utils.js:69-81, index.js:91-101)
  debounce,           \* setTimeout calls of processTag under a given RELEASE_TIMEOUT setting
  dispatcher,         \* debounce callbacks of the process, with the failures of each release
  statusFetch,        \* one getStatuses call on a commit whose statuses come in pages (index.js:211-229)
  chain,              \* one forEachChained call of publishWorkspace over the crates in publish order (utils.js:35-41)
  resolution          \* create handlers resolving their references against the git objects (index.js:74-101, 382-385)

\* The release engine's variables
engineVars == <<repoConfig, srvTags, srvStatuses, nEvents, handlers, tagCache, loads,
                scheduledReleases, timers, dispatches, sinceEvent, sinceDispatch, lastAdd>>

\* The variables of the parts studied on their own
auxVars == <<release, targetRun, evaluation, publish, spawned, tempDirs, stores, downloads, targetCalls, lookups, debounce, dispatcher, statusFetch, chain, resolution>>

vars == <<engineVars, auxVars>>

-----------------------------------------------------------------------------
(* Bounds of the model *)

\* Number of webhook events delivered in one behaviour
MaxEvents == 2

\* Number of targets configured in release.yml
MaxTargets == 2

\* Number of release artifacts in the store, and of crates in a workspace
MaxFiles == 2

\* Number of statuses of a commit
MaxStatuses == 3

\* Number of packages in a cargo workspace
MaxPackages == 2

\* Number of variables in the env map of spawn options
MaxEnv == 2

\* Number of concurrent withTempDir calls
MaxCalls == 2

\* Number of listFiles calls on one store
MaxListCalls == 2

\* Number of single downloadFile calls on one store
MaxDownloadCalls == 2

\* Number of concurrent lookups on the hosting API
MaxLookups == 2

\* Number of releases that processTag schedules
MaxSchedules == 2

\* Number of statuses on a page of the hosting API (scaled down)
PerPage == 2

-----------------------------------------------------------------------------
(* Program constants *)

\* index.js:31  seconds to wait before starting a release (from the environment)
RELEASE_TIMEOUT == 2

REF_TYPE_TAG == "tag"
STATE_PENDING == "pending"
STATE_SUCCESS == "success"

-----------------------------------------------------------------------------
(* Values *)

Repo == "owner/repo"
Refs == {"v1", "v2"}
Shas == {"a1", "b2"}
NoSha == "none"
NoTag == [ref |-> "none", sha |-> NoSha]

\* Status contexts, as character sequences (startsWith is by characters)
CtxCI == <<"c", "i">>
CtxCov == <<"c", "o", "v">>
Contexts == {CtxCI, CtxCov}
States == {STATE_PENDING, STATE_SUCCESS, "failure"}

\* release.yml variants; present = FALSE is a repository without release.yml
NoConfig == [present |-> FALSE, store |-> "none", targets |-> <<>>, ignoredChecks |-> {}]
Configs ==
  { NoConfig,
    [present |-> TRUE, store |-> "zeus", targets |-> <<>>, ignoredChecks |-> {<<"c", "o">>}],
    [present |-> TRUE, store |-> "zeus", targets |-> <<"npm", "github">>, ignoredChecks |-> {}] }

\* Tags the repository holds before the first event
InitialTags ==
  { [r \in Refs |-> NoSha],
    [r \in Refs |-> IF r = "v1" THEN "a1" ELSE NoSha] }

Id(ref) == <<Repo, ref>>
Ids == {Id(r) : r \in Refs}

Min(a, b) == IF a < b THEN a ELSE b
Max(a, b) == IF a > b THEN a ELSE b

-----------------------------------------------------------------------------
(* Pure functions of index.js and utils.js *)

\* String.prototype.startsWith
StartsWith(s, prefix) ==
  /\ Len(prefix) <= Len(s)
  /\ SubSeq(s, 1, Len(prefix)) = prefix

\* utils.js isSorted(array, descending)
IsSorted(array, descending) ==
  \A i \in 2..Len(array) :
    IF descending THEN array[i - 1] >= array[i] ELSE array[i - 1] <= array[i]

\* _.sortBy(statuses, status => status.updated_at): stable insertion by updated_at
RECURSIVE InsertByUpdatedAt(_, _)
InsertByUpdatedAt(sorted, s) ==
  IF sorted = <<>> THEN <<s>>
  ELSE IF Head(sorted).updated_at <= s.updated_at
       THEN <<Head(sorted)>> \o InsertByUpdatedAt(Tail(sorted), s)
       ELSE <<s>> \o sorted

RECURSIVE SortByUpdatedAt(_)
SortByUpdatedAt(statuses) ==
  IF statuses = <<>> THEN <<>>
  ELSE InsertByUpdatedAt(SortByUpdatedAt(SubSeq(statuses, 1, Len(statuses) - 1)),
                         statuses[Len(statuses)])

\* index.js getStatuses: the first page if it is sorted descending by updated_at,
\* otherwise all pages sorted ascending. `firstPage` and `allPages` are what the
\* hosting provider answers.
GetStatuses(firstPage, allPages) ==
  IF IsSorted([i \in 1..Len(firstPage) |-> firstPage[i].updated_at], TRUE)
  THEN firstPage
  ELSE SortByUpdatedAt(allPages)

\* ignoredChecks compared with the whole context instead of its start
FilterIgnored_Exact(statuses, config) ==
  SelectSeq(statuses, LAMBDA status : status.context \notin config.ignoredChecks)

\* index.js filterLatestStatuses, first part: drop the ignored contexts
FilterIgnored(statuses, config) ==
  SelectSeq(statuses,
            LAMBDA status : ~ \E check \in config.ignoredChecks :
                                StartsWith(status.context, check))

\* The first status of the group, as if the list came newest first
MaxByUpdatedAt_First(group) == group[1]

\* _.maxBy(group, status => status.updated_at): the first element with the maximum
RECURSIVE MaxByUpdatedAt(_)
MaxByUpdatedAt(group) ==
  IF Len(group) = 1 THEN group[1]
  ELSE LET rest == MaxByUpdatedAt(SubSeq(group, 1, Len(group) - 1))
           last == group[Len(group)]
       IN IF last.updated_at > rest.updated_at THEN last ELSE rest

\* index.js filterLatestStatuses: per context of the non-ignored statuses, the
\* status with the maximum updated_at (the result as a set: its order is unused)
FilterLatestStatuses(statuses, config) ==
  LET filtered == FilterIgnored(statuses, config)
      contexts == {filtered[i].context : i \in 1..Len(filtered)}
      group(c) == SelectSeq(filtered, LAMBDA status : status.context = c)
  IN {MaxByUpdatedAt(group(c)) : c \in contexts}

\* tags.findIndex(tag => tag.ref === ref): 0 when there is none
FindIndexByRef(tags, ref) ==
  IF \E i \in 1..Len(tags) : tags[i].ref = ref
  THEN CHOOSE i \in 1..Len(tags) :
         /\ tags[i].ref = ref
         /\ \A j \in 1..(i - 1) : tags[j].ref # ref
  ELSE 0

\* tags.splice(index, 1)
Splice(tags, index) ==
  SubSeq(tags, 1, index - 1) \o SubSeq(tags, index + 1, Len(tags))

\* findTag that takes the last tag of the sha
FindTag_Last(tags, sha) ==
  IF \E i \in 1..Len(tags) : tags[i].sha = sha
  THEN tags[CHOOSE i \in 1..Len(tags) :
              /\ tags[i].sha = sha
              /\ \A j \in (i + 1)..Len(tags) : tags[j].sha # sha]
  ELSE NoTag

\* findTag that takes the first tag whatever its sha
FindTag_AnySha(tags, sha) ==
  IF tags # <<>> THEN tags[1] ELSE NoTag

\* index.js findTag, after the await: tags.find(tag => tag.sha === sha)
FindTag(tags, sha) ==
  IF \E i \in 1..Len(tags) : tags[i].sha = sha
  THEN tags[CHOOSE i \in 1..Len(tags) :
              /\ tags[i].sha = sha
              /\ \A j \in 1..(i - 1) : tags[j].sha # sha]
  ELSE NoTag

\* addTag without the removal of the ref's existing entry
AddTag_NoSplice(tags, ref, sha) ==
  Append(tags, [ref |-> ref, sha |-> sha])

\* index.js addTag, after the await: remove the entry of the ref, append {ref, sha}
AddTag(tags, ref, sha) ==
  LET index == FindIndexByRef(tags, ref)
      kept == IF index > 0 THEN Splice(tags, index) ELSE tags
  IN Append(kept, [ref |-> ref, sha |-> sha])

\* index.js removeTag, after the await: remove the entry of the ref
RemoveTag(tags, ref) ==
  LET index == FindIndexByRef(tags, ref)
  IN IF index > 0 THEN Splice(tags, index) ELSE tags

-----------------------------------------------------------------------------
(* The hosting provider's answers *)

RefOrder == <<"v1", "v2">>

\* github.paginate(repos.getTags(...)): all tags of the repository, {ref, sha}
PaginateTags(tagsOnServer) ==
  LET present == SelectSeq(RefOrder, LAMBDA r : tagsOnServer[r] # NoSha)
  IN [i \in 1..Len(present) |-> [ref |-> present[i], sha |-> tagsOnServer[present[i]]]]

-----------------------------------------------------------------------------
(* Tag cache: index.js getTags *)

\* The promise of a paginated retrieval: pending until the hosting provider has
\* answered and the answer has arrived; `waiters` are the handlers awaiting it,
\* in the order of their awaits
NewLoad == [state |-> "pending", tags |-> <<>>, waiters |-> <<>>]

\* getTags that never serves the cached promise
GetTags_NoCache(cache, lds) ==
  [cache |-> [cache EXCEPT ![Repo] = Len(lds) + 1],
   loads |-> Append(lds, NewLoad),
   promise |-> Len(lds) + 1]

\* getTags that starts the retrieval again when the cached promise is rejected
GetTags_RetryRejected(cache, lds) ==
  IF cache[Repo] # 0 /\ lds[cache[Repo]].state # "rejected"
  THEN [cache |-> cache, loads |-> lds, promise |-> cache[Repo]]
  ELSE [cache |-> [cache EXCEPT ![Repo] = Len(lds) + 1],
        loads |-> Append(lds, NewLoad),
        promise |-> Len(lds) + 1]

\* index.js getTags: serve the cached promise, or start the paginated retrieval
\* and store its promise in the cache right away. The result holds the new cache,
\* the new list of retrievals and the promise handed to the caller.
GetTags(cache, lds) ==
  IF cache[Repo] # 0
  THEN [cache |-> cache, loads |-> lds, promise |-> cache[Repo]]
  ELSE [cache |-> [cache EXCEPT ![Repo] = Len(lds) + 1],
        loads |-> Append(lds, NewLoad),
        promise |-> Len(lds) + 1]

\* What a handler does with the tag list once `await getTags` returns, up to its
\* next await:
\*   create  index.js:167-175, 385, 312-321  addTag, then processTag up to getStatuses
\*   delete  index.js:190-197, 402           removeTag
\*   status  index.js:145, 414-420, 312-321  findTag; no tag: ignored; else processTag
\* The result holds the handler, the tag list and the history of addTag.
WithTags(handler, tags, added) ==
  IF handler.kind = "create"
  THEN [handler |-> [handler EXCEPT !.pc = "statuses",
                                    !.tag = [ref |-> handler.ref, sha |-> handler.sha]],
        tags |-> AddTag(tags, handler.ref, handler.sha),
        added |-> [added EXCEPT ![handler.ref] = handler.sha]]
  ELSE IF handler.kind = "delete"
  THEN [handler |-> [handler EXCEPT !.pc = "done"],
        tags |-> RemoveTag(tags, handler.ref),
        added |-> added]
  ELSE LET tag == FindTag(tags, handler.sha)
       IN [handler |-> [handler EXCEPT !.pc = IF tag = NoTag THEN "ignored" ELSE "statuses",
                                       !.tag = tag],
           tags |-> tags,
           added |-> added]

\* The reactions of a resolved promise run in the order of the awaits, each up
\* to its handler's next await, before anything else runs
RECURSIVE RunWaiters(_, _, _, _)
RunWaiters(waiters, hs, tags, added) ==
  IF waiters = <<>>
  THEN [handlers |-> hs, tags |-> tags, added |-> added]
  ELSE LET h == Head(waiters)
           r == WithTags(hs[h], tags, added)
       IN RunWaiters(Tail(waiters), [hs EXCEPT ![h] = r.handler], r.tags, r.added)

-----------------------------------------------------------------------------
(* Release scheduler: index.js processTag, after the await *)

\* A clearTimeout that leaves the timer running
ClearTimeout_Noop(tms, handle) == tms

\* clearTimeout(handle): a timer that has not fired never fires
ClearTimeout(tms, handle) ==
  IF tms[handle].state = "live"
  THEN [tms EXCEPT ![handle].state = "cleared", ![handle].rem = 0]
  ELSE tms

\* processTag without the cancellation of the scheduled release
CancelScheduled_Skipped(sched, tms, id) ==
  [sched |-> sched, timers |-> tms]

\* index.js:326-330  prevent a previously scheduled release
CancelScheduled(sched, tms, id) ==
  IF sched[id] # 0
  THEN [sched |-> [sched EXCEPT ![id] = 0],
        timers |-> [ClearTimeout(tms, sched[id]) EXCEPT ![sched[id]].cancelled = TRUE]]
  ELSE [sched |-> sched, timers |-> tms]

\* processTag with the check for failed statuses before the check for pending ones
Decide_FailedFirst(latestStatuses, config) ==
  IF latestStatuses = {} THEN "no-statuses"
  ELSE IF \E status \in latestStatuses : status.state \notin {STATE_SUCCESS, STATE_PENDING}
       THEN "failed"
  ELSE IF \E status \in latestStatuses : status.state = STATE_PENDING THEN "pending"
  ELSE IF Len(config.targets) = 0 THEN "no-targets"
  ELSE "schedule"

\* processTag without the check for failed statuses (index.js:345-349)
Decide_NoFailedCheck(latestStatuses, config) ==
  IF latestStatuses = {} THEN "no-statuses"
  ELSE IF \E status \in latestStatuses : status.state = STATE_PENDING THEN "pending"
  ELSE IF Len(config.targets) = 0 THEN "no-targets"
  ELSE "schedule"

\* index.js:332-355  what processTag decides from the kept statuses and the config
Decide(latestStatuses, config) ==
  IF latestStatuses = {} THEN "no-statuses"
  ELSE IF \E status \in latestStatuses : status.state = STATE_PENDING THEN "pending"
  ELSE IF \E status \in latestStatuses : status.state # STATE_SUCCESS THEN "failed"
  ELSE IF Len(config.targets) = 0 THEN "no-targets"
  ELSE "schedule"

\* setTimeout without the delay: the callback is due at once
NewTimer_Immediate(id, tag, config, born) ==
  [id |-> id, rem |-> 0, state |-> "live", cancelled |-> FALSE,
   tag |-> tag, config |-> config, born |-> born]

\* setTimeout(callback, RELEASE_TIMEOUT * 1000): the callback closes over id, tag, config
NewTimer(id, tag, config, born) ==
  [id |-> id, rem |-> RELEASE_TIMEOUT, state |-> "live", cancelled |-> FALSE,
   tag |-> tag, config |-> config, born |-> born]

\* index.js:324-362  processTag after `await getStatuses`: cancel, decide, schedule
ProcessTag(sched, tms, tag, config, statuses, born) ==
  LET id == Id(tag.ref)
      latestStatuses == FilterLatestStatuses(statuses, config)
      cancelled == CancelScheduled(sched, tms, id)
      outcome == Decide(latestStatuses, config)
  IN IF outcome = "schedule"
     THEN [sched |-> [cancelled.sched EXCEPT ![id] = Len(cancelled.timers) + 1],
           timers |-> Append(cancelled.timers, NewTimer(id, tag, config, born)),
           outcome |-> outcome]
     ELSE [sched |-> cancelled.sched, timers |-> cancelled.timers, outcome |-> outcome]

-----------------------------------------------------------------------------
(* Initial state: nothing cached, nothing scheduled, no event delivered *)

\* The parts studied on their own, at rest
Idle == <<>>

AuxIdle(except) ==
  /\ IF except = "release" THEN TRUE ELSE release = Idle
  /\ IF except = "targetRun" THEN TRUE ELSE targetRun = Idle
  /\ IF except = "evaluation" THEN TRUE ELSE evaluation = Idle
  /\ IF except = "publish" THEN TRUE ELSE publish = Idle
  /\ IF except = "spawned" THEN TRUE ELSE spawned = Idle
  /\ IF except = "tempDirs" THEN TRUE ELSE tempDirs = Idle
  /\ IF except = "stores" THEN TRUE ELSE stores = Idle
  /\ IF except = "downloads" THEN TRUE ELSE downloads = Idle
  /\ IF except = "targetCalls" THEN TRUE ELSE targetCalls = Idle
  /\ IF except = "lookups" THEN TRUE ELSE lookups = Idle
  /\ IF except = "debounce" THEN TRUE ELSE debounce = Idle
  /\ IF except = "dispatcher" THEN TRUE ELSE dispatcher = Idle
  /\ IF except = "statusFetch" THEN TRUE ELSE statusFetch = Idle
  /\ IF except = "chain" THEN TRUE ELSE chain = Idle
  /\ IF except = "resolution" THEN TRUE ELSE resolution = Idle

EngineIdle ==
  /\ repoConfig = NoConfig
  /\ srvTags = [r \in Refs |-> NoSha]
  /\ srvStatuses = [s \in Shas |-> <<>>]
  /\ nEvents = 0
  /\ handlers = <<>>
  /\ tagCache = [r \in {Repo} |-> 0]
  /\ loads = <<>>
  /\ scheduledReleases = [id \in Ids |-> 0]
  /\ timers = <<>>
  /\ dispatches = <<>>
  /\ sinceEvent = [id \in Ids |-> RELEASE_TIMEOUT]
  /\ sinceDispatch = [id \in Ids |-> RELEASE_TIMEOUT]
  /\ lastAdd = [r \in Refs |-> NoSha]

Init ==
  /\ AuxIdle("none")
  /\ repoConfig \in Configs
  /\ srvTags \in InitialTags
  /\ srvStatuses = [s \in Shas |-> <<>>]
  /\ nEvents = 0
  /\ handlers = <<>>
  /\ tagCache = [r \in {Repo} |-> 0]
  /\ loads = <<>>
  /\ scheduledReleases = [id \in Ids |-> 0]
  /\ timers = <<>>
  /\ dispatches = <<>>
  /\ sinceEvent = [id \in Ids |-> RELEASE_TIMEOUT]
  /\ sinceDispatch = [id \in Ids |-> RELEASE_TIMEOUT]
  /\ lastAdd = [r \in Refs |-> NoSha]

-----------------------------------------------------------------------------
(* Webhook events. An event changes the repository on the hosting provider   *)
(* and starts its handler, which runs up to its first await.                 *)

\* The ids with a release in progress: performRelease has started and has not ended
Dispatching ==
  {dispatches[d].id : d \in {x \in 1..Len(dispatches) : dispatches[x].stage # "done"}}

NewHandler(kind, refType, ref, sha) ==
  [kind |-> kind, refType |-> refType, ref |-> ref, sha |-> sha,
   pc |-> "ignored", config |-> NoConfig, tags |-> 0, tag |-> NoTag,
   statuses |-> <<>>, outcome |-> "none"]

\* History: an event arrived, for the tag ids in `ids`
NoteEvent(ids) ==
  /\ nEvents' = nEvents + 1
  /\ sinceEvent' = [id \in Ids |-> IF id \in ids THEN 0 ELSE sinceEvent[id]]

\* index.js:58-61  getConfig: release.yml merged with the defaults, or null
GetConfig == repoConfig

\* index.js:370-383  `create` event: anything but a tag is ignored, and so is a
\* repository without release.yml; otherwise the reference is requested.
\* (getConfig reads release.yml and nothing else, and the handler does nothing
\* between its answer and the request of the reference: the two awaits are one.)
CreateEvent(refType, ref, sha) ==
  /\ nEvents < MaxEvents
  /\ srvTags' = IF refType = REF_TYPE_TAG THEN [srvTags EXCEPT ![ref] = sha] ELSE srvTags
  /\ LET h == NewHandler("create", refType, ref, NoSha)
     IN handlers' = Append(handlers,
          IF refType # REF_TYPE_TAG \/ ~ GetConfig.present
          THEN h
          ELSE [h EXCEPT !.pc = "reference", !.config = GetConfig])
  /\ NoteEvent(IF refType = REF_TYPE_TAG THEN {Id(ref)} ELSE {})
  /\ UNCHANGED <<auxVars, repoConfig, srvStatuses, tagCache, loads, scheduledReleases, timers,
                 dispatches, sinceDispatch, lastAdd>>

\* index.js:390-397  `delete` event: anything but a tag is ignored; otherwise the
\* handler awaits getConfig
DeleteEvent(refType, ref) ==
  /\ nEvents < MaxEvents
  /\ refType = REF_TYPE_TAG => srvTags[ref] # NoSha
  /\ srvTags' = IF refType = REF_TYPE_TAG THEN [srvTags EXCEPT ![ref] = NoSha] ELSE srvTags
  /\ LET h == NewHandler("delete", refType, ref, NoSha)
     IN handlers' = Append(handlers,
          IF refType # REF_TYPE_TAG THEN h ELSE [h EXCEPT !.pc = "config"])
  /\ NoteEvent(IF refType = REF_TYPE_TAG THEN {Id(ref)} ELSE {})
  /\ UNCHANGED <<auxVars, repoConfig, srvStatuses, tagCache, loads, scheduledReleases, timers,
                 dispatches, sinceDispatch, lastAdd>>

\* index.js:407-409  `status` event: a check reported a state for a commit; the
\* handler awaits getConfig
StatusEvent(sha, context, state) ==
  /\ nEvents < MaxEvents
  /\ srvStatuses' = [srvStatuses EXCEPT ![sha] =
        <<[context |-> context, state |-> state, updated_at |-> nEvents + 1]>> \o @]
  /\ handlers' = Append(handlers,
        [NewHandler("status", "commit", "none", sha) EXCEPT !.pc = "config"])
  /\ NoteEvent({Id(r) : r \in {x \in Refs : srvTags[x] = sha}})
  /\ UNCHANGED <<auxVars, repoConfig, srvTags, tagCache, loads, scheduledReleases, timers,
                 dispatches, sinceDispatch, lastAdd>>

-----------------------------------------------------------------------------
(* Continuations of the handlers' awaits *)

Awaiting(h, pc) == h \in 1..Len(handlers) /\ handlers[h].pc = pc

\* `await getTags(context)` inside addTag / removeTag / findTag, called by
\* `handler` (the record of handler h at the call): getTags is called; on a
\* resolved promise the handler goes on at once, on a rejected one it fails
\* with the error of the promise, on a pending one it waits
AwaitTags(h, handler) ==
  LET g == GetTags(tagCache, loads)
      p == g.promise
      caller == [handler EXCEPT !.tags = p]
  IN /\ tagCache' = g.cache
     /\ IF g.loads[p].state = "resolved"
        THEN LET r == WithTags(caller, g.loads[p].tags, lastAdd)
             IN /\ handlers' = [handlers EXCEPT ![h] = r.handler]
                /\ loads' = [g.loads EXCEPT ![p].tags = r.tags]
                /\ lastAdd' = r.added
        ELSE IF g.loads[p].state = "rejected"
        THEN /\ handlers' = [handlers EXCEPT ![h] = [caller EXCEPT !.pc = "failed"]]
             /\ loads' = g.loads
             /\ lastAdd' = lastAdd
        ELSE /\ handlers' = [handlers EXCEPT ![h] = [caller EXCEPT !.pc = "tags"]]
             /\ loads' = [g.loads EXCEPT ![p].waiters = Append(@, h)]
             /\ lastAdd' = lastAdd

\* index.js:377-380, 397-402, 409-414  `await getConfig` returns to a delete or
\* status handler: a repository without release.yml is ignored; otherwise
\* removeTag / findTag call getTags
ConfigDelivered(h) ==
  /\ Awaiting(h, "config")
  /\ IF ~ GetConfig.present
     THEN /\ handlers' = [handlers EXCEPT ![h].pc = "ignored"]
          /\ UNCHANGED <<tagCache, loads, lastAdd>>
     ELSE AwaitTags(h, [handlers[h] EXCEPT !.config = GetConfig])
  /\ UNCHANGED <<auxVars, repoConfig, srvTags, srvStatuses, nEvents, scheduledReleases, timers,
                 dispatches, sinceEvent, sinceDispatch>>

\* index.js:91-101  the hosting provider answers gitdata.getReference: the object
\* the ref points to now, or 404 for a ref that does not exist
ReferenceAnswered(h) ==
  /\ Awaiting(h, "reference")
  /\ handlers' = [handlers EXCEPT ![h].pc = "referenceReply",
                                  ![h].sha = srvTags[handlers[h].ref]]
  /\ UNCHANGED <<auxVars, repoConfig, srvTags, srvStatuses, nEvents, tagCache, loads,
                 scheduledReleases, timers, dispatches, sinceEvent, sinceDispatch,
                 lastAdd>>

\* index.js:383-384, 162-166  `await getReference` returns (a 404 rejects, and
\* nothing catches it), then addTag calls getTags
ReferenceDelivered(h) ==
  /\ Awaiting(h, "referenceReply")
  /\ IF handlers[h].sha = NoSha
     THEN /\ handlers' = [handlers EXCEPT ![h].pc = "failed"]
          /\ UNCHANGED <<tagCache, loads, lastAdd>>
     ELSE AwaitTags(h, handlers[h])
  /\ UNCHANGED <<auxVars, repoConfig, srvTags, srvStatuses, nEvents, scheduledReleases, timers,
                 dispatches, sinceEvent, sinceDispatch>>

\* index.js:126-129  the hosting provider answers the paginated retrieval
PaginateAnswered(p) ==
  /\ p \in 1..Len(loads)
  /\ loads[p].state = "pending"
  /\ loads' = [loads EXCEPT ![p].state = "answered", ![p].tags = PaginateTags(srvTags)]
  /\ UNCHANGED <<auxVars, repoConfig, srvTags, srvStatuses, nEvents, handlers, tagCache,
                 scheduledReleases, timers, dispatches, sinceEvent, sinceDispatch,
                 lastAdd>>

\* index.js:126-129  the promise of the retrieval resolves: the handlers awaiting
\* it go on, in the order of their awaits
PaginateDone(p) ==
  /\ p \in 1..Len(loads)
  /\ loads[p].state = "answered"
  /\ LET r == RunWaiters(loads[p].waiters, handlers, loads[p].tags, lastAdd)
     IN /\ handlers' = r.handlers
        /\ loads' = [loads EXCEPT ![p] = [state |-> "resolved", tags |-> r.tags,
                                          waiters |-> <<>>]]
        /\ lastAdd' = r.added
  /\ UNCHANGED <<auxVars, repoConfig, srvTags, srvStatuses, nEvents, tagCache, scheduledReleases,
                 timers, dispatches, sinceEvent, sinceDispatch>>

\* index.js:126-129  the paginated retrieval fails: its promise is rejected and
\* every handler awaiting it fails with its error
PaginateFails(p) ==
  /\ p \in 1..Len(loads)
  /\ loads[p].state = "pending"
  /\ handlers' = [h \in 1..Len(handlers) |->
                    IF \E w \in 1..Len(loads[p].waiters) : loads[p].waiters[w] = h
                    THEN [handlers[h] EXCEPT !.pc = "failed"]
                    ELSE handlers[h]]
  /\ loads' = [loads EXCEPT ![p] = [state |-> "rejected", tags |-> <<>>, waiters |-> <<>>]]
  /\ UNCHANGED <<auxVars, repoConfig, srvTags, srvStatuses, nEvents, tagCache, scheduledReleases,
                 timers, dispatches, sinceEvent, sinceDispatch, lastAdd>>

\* A rejected request, as the handler keeps it until the rejection is delivered
Rejected == <<[context |-> <<>>, state |-> "rejected", updated_at |-> 0]>>

\* index.js:211-219  the hosting provider answers repos.getStatuses({ref: tag.ref}):
\* the statuses of the commit the ref names now, newest first; a ref that no
\* longer exists is rejected
StatusesAnswered(h) ==
  /\ Awaiting(h, "statuses")
  /\ LET sha == srvTags[handlers[h].tag.ref]
     IN handlers' = [handlers EXCEPT
          ![h].pc = "statusesReply",
          ![h].statuses = IF sha = NoSha THEN Rejected ELSE srvStatuses[sha]]
  /\ UNCHANGED <<auxVars, repoConfig, srvTags, srvStatuses, nEvents, tagCache, loads,
                 scheduledReleases, timers, dispatches, sinceEvent, sinceDispatch,
                 lastAdd>>

\* index.js:211-219  the request of the statuses fails (the hosting provider
\* answers with an error, or not at all)
StatusesFail(h) ==
  /\ Awaiting(h, "statuses")
  /\ handlers' = [handlers EXCEPT ![h].pc = "statusesReply", ![h].statuses = Rejected]
  /\ UNCHANGED <<auxVars, repoConfig, srvTags, srvStatuses, nEvents, tagCache, loads,
                 scheduledReleases, timers, dispatches, sinceEvent, sinceDispatch,
                 lastAdd>>

\* processTag with the cancellation ahead of the request of the statuses: a
\* rejection ends it with the scheduled release cancelled
StatusesDelivered_CancelFirst(h) ==
  /\ Awaiting(h, "statusesReply")
  /\ IF handlers[h].statuses = Rejected
     THEN LET c == CancelScheduled(scheduledReleases, timers, Id(handlers[h].tag.ref))
          IN /\ handlers' = [handlers EXCEPT ![h].pc = "failed", ![h].statuses = <<>>]
             /\ scheduledReleases' = c.sched
             /\ timers' = c.timers
     ELSE LET statuses == GetStatuses(handlers[h].statuses, handlers[h].statuses)
              r == ProcessTag(scheduledReleases, timers, handlers[h].tag,
                              handlers[h].config, statuses, nEvents)
          IN /\ scheduledReleases' = r.sched
             /\ timers' = r.timers
             /\ handlers' = [handlers EXCEPT ![h].pc = "done", ![h].statuses = statuses,
                                             ![h].outcome = r.outcome]
  /\ UNCHANGED <<auxVars, repoConfig, srvTags, srvStatuses, nEvents, tagCache, loads, dispatches,
                 sinceEvent, sinceDispatch, lastAdd>>

\* index.js:321-363  `await getStatuses` returns: a rejection ends processTag;
\* otherwise the rest of processTag runs
StatusesDelivered(h) ==
  /\ Awaiting(h, "statusesReply")
  /\ IF handlers[h].statuses = Rejected
     THEN /\ handlers' = [handlers EXCEPT ![h].pc = "failed", ![h].statuses = <<>>]
          /\ UNCHANGED <<scheduledReleases, timers>>
     ELSE LET statuses == GetStatuses(handlers[h].statuses, handlers[h].statuses)
              r == ProcessTag(scheduledReleases, timers, handlers[h].tag,
                              handlers[h].config, statuses, nEvents)
          IN /\ scheduledReleases' = r.sched
             /\ timers' = r.timers
             /\ handlers' = [handlers EXCEPT ![h].pc = "done", ![h].statuses = statuses,
                                             ![h].outcome = r.outcome]
  /\ UNCHANGED <<auxVars, repoConfig, srvTags, srvStatuses, nEvents, tagCache, loads, dispatches,
                 sinceEvent, sinceDispatch, lastAdd>>

-----------------------------------------------------------------------------
(* Timers and dispatch *)

\* performRelease(context, tag, config) up to `await mkdtemp`
NewDispatch(t, tm) ==
  [timer |-> t, id |-> tm.id, tag |-> tm.tag, config |-> tm.config,
   stage |-> "tempdir", invoked |-> <<>>,
   eventAge |-> sinceEvent[tm.id], dispatchAge |-> sinceDispatch[tm.id],
   wasCancelled |-> tm.cancelled]

\* index.js:359-362, 269-273  the timer callback: forget the schedule, start the release
TimerFire(t) ==
  /\ t \in 1..Len(timers)
  /\ timers[t].state = "live"
  /\ timers[t].rem = 0
  /\ timers' = [timers EXCEPT ![t].state = "fired"]
  /\ scheduledReleases' = [scheduledReleases EXCEPT ![timers[t].id] = 0]
  /\ dispatches' = Append(dispatches, NewDispatch(t, timers[t]))
  /\ sinceDispatch' = [sinceDispatch EXCEPT ![timers[t].id] = 0]
  /\ UNCHANGED <<auxVars, repoConfig, srvTags, srvStatuses, nEvents, handlers, tagCache, loads,
                 sinceEvent, lastAdd>>

\* index.js:275-280  createStore(config.store, context.repo({ref, sha}), directory)
CreateStore(config, tag) ==
  [type |-> config.store, repo |-> Repo, ref |-> tag.ref, sha |-> tag.sha]

\* index.js:282-286  config.targets.map(target => runTarget(target, context, tag, store))
RunTargets(config, tag) ==
  [i \in 1..Len(config.targets) |->
     [target |-> config.targets[i], tag |-> tag, store |-> CreateStore(config, tag)]]

\* index.js:273-288  the temp directory exists: create the store, launch every target
DispatchRun(d) ==
  /\ d \in 1..Len(dispatches)
  /\ dispatches[d].stage = "tempdir"
  /\ dispatches' = [dispatches EXCEPT
        ![d].stage = "running",
        ![d].invoked = RunTargets(dispatches[d].config, dispatches[d].tag)]
  /\ UNCHANGED <<auxVars, repoConfig, srvTags, srvStatuses, nEvents, handlers, tagCache, loads,
                 scheduledReleases, timers, sinceEvent, sinceDispatch,
                 lastAdd>>

\* index.js:288-292, files.js:49-51  all targets have settled: remove the directory
DispatchFinish(d) ==
  /\ d \in 1..Len(dispatches)
  /\ dispatches[d].stage = "running"
  /\ dispatches' = [dispatches EXCEPT ![d].stage = "done"]
  /\ UNCHANGED <<auxVars, repoConfig, srvTags, srvStatuses, nEvents, handlers, tagCache, loads,
                 scheduledReleases, timers, sinceEvent, sinceDispatch,
                 lastAdd>>

\* One second passes: live timers come closer to firing, the ages grow (capped at
\* RELEASE_TIMEOUT, beyond which no property tells them apart)
Age(n) == Min(n + 1, RELEASE_TIMEOUT)

Tick ==
  /\ timers' = [t \in 1..Len(timers) |->
                  IF timers[t].state = "live"
                  THEN [timers[t] EXCEPT !.rem = Max(@ - 1, 0)]
                  ELSE timers[t]]
  /\ sinceEvent' = [id \in Ids |-> Age(sinceEvent[id])]
  /\ sinceDispatch' = [id \in Ids |-> Age(sinceDispatch[id])]
  /\ <<timers, sinceEvent, sinceDispatch>>' #
       <<timers, sinceEvent, sinceDispatch>>
  /\ UNCHANGED <<auxVars, repoConfig, srvTags, srvStatuses, nEvents, handlers, tagCache, loads,
                 scheduledReleases, dispatches, lastAdd>>

-----------------------------------------------------------------------------

(* The steps of the program itself: continuations, timers, dispatch *)
Step ==
  \/ \E h \in 1..MaxEvents : ConfigDelivered(h)
  \/ \E h \in 1..MaxEvents : ReferenceAnswered(h)
  \/ \E h \in 1..MaxEvents : ReferenceDelivered(h)
  \/ \E p \in 1..MaxEvents : PaginateAnswered(p)
  \/ \E p \in 1..MaxEvents : PaginateDone(p)
  \/ \E h \in 1..MaxEvents : StatusesAnswered(h)
  \/ \E h \in 1..MaxEvents : StatusesDelivered(h)

(* The events of one tag, v1 at commit a1, with every status *)
TagEvents ==
  \/ CreateEvent(REF_TYPE_TAG, "v1", "a1")
  \/ DeleteEvent(REF_TYPE_TAG, "v1")
  \/ \E context \in Contexts, state \in States : StatusEvent("a1", context, state)

Release ==
  \/ \E t \in 1..MaxEvents : TimerFire(t)
  \/ \E d \in 1..MaxEvents : DispatchRun(d)
  \/ \E d \in 1..MaxEvents : DispatchFinish(d)

(* Scheduler: the events of one tag at any time *)
Next ==
  \/ TagEvents
  \/ Step
  \/ Release
  \/ Tick

Spec == Init /\ [][Next]_vars

\* The handler of event h has returned, or has thrown
Finished(h) == handlers[h].pc \in {"done", "ignored", "failed"}

(* Scheduler, events in a burst: the events of one tag all arrive, and their *)
(* handlers all end, before a second has passed (within one RELEASE_TIMEOUT  *)
(* window); then time passes                                                 *)
NextBurst ==
  \/ TagEvents
  \/ Step
  \/ Release
  \/ (nEvents = MaxEvents /\ (\A h \in 1..Len(handlers) : Finished(h)) /\ Tick)

SpecBurst == Init /\ [][NextBurst]_vars

(* Tag cache: the events of every ref and ref type; checks that are pending, *)
(* so that no release is ever scheduled                                      *)
NextTags ==
  \/ \E refType \in {REF_TYPE_TAG, "branch"}, ref \in Refs, sha \in Shas :
       CreateEvent(refType, ref, sha)
  \/ \E refType \in {REF_TYPE_TAG, "branch"}, ref \in Refs : DeleteEvent(refType, ref)
  \/ \E sha \in Shas : StatusEvent(sha, CtxCI, STATE_PENDING)
  \/ Step

SpecTags == Init /\ [][NextTags]_vars

(* Events that are ignored beside events that are not: the tag v1 with a      *)
(* successful check, a branch, and a check of a commit that no tag points to  *)
NextIgnored ==
  \/ CreateEvent(REF_TYPE_TAG, "v1", "a1")
  \/ CreateEvent("branch", "v2", "b2")
  \/ DeleteEvent("branch", "v2")
  \/ \E sha \in Shas : StatusEvent(sha, CtxCI, STATE_SUCCESS)
  \/ Step
  \/ Release
  \/ Tick

SpecIgnored == Init /\ [][NextIgnored]_vars

-----------------------------------------------------------------------------
(* Vocabulary of the properties *)

\* Every handler has ended, no timer is waiting, no release is running
Quiescent ==
  /\ \A h \in 1..Len(handlers) : Finished(h)
  /\ \A t \in 1..Len(timers) : timers[t].state # "live"
  /\ \A d \in 1..Len(dispatches) : dispatches[d].stage = "done"

\* The timer with handle t fires in this step
Fires(t) == timers[t].state = "live" /\ timers'[t].state = "fired"

\* Handler h runs the rest of processTag (index.js:322-363) in this step
Processes(h) == handlers[h].pc = "statusesReply" /\ handlers'[h].pc = "done"

\* The statuses the spec calls kept: of a non-ignored context, and the latest of
\* their context
Kept(statuses, config) ==
  {s \in {statuses[i] : i \in 1..Len(statuses)} :
     /\ ~ \E check \in config.ignoredChecks : StartsWith(s.context, check)
     /\ \A i \in 1..Len(statuses) :
          statuses[i].context = s.context => statuses[i].updated_at <= s.updated_at}

Green(statuses, config) ==
  /\ Kept(statuses, config) # {}
  /\ \A s \in Kept(statuses, config) : s.state = STATE_SUCCESS

\* The tag list of the cache, once the retrieval has resolved
CacheResolved == tagCache[Repo] # 0 /\ loads[tagCache[Repo]].state = "resolved"
CachedTags == loads[tagCache[Repo]].tags

-----------------------------------------------------------------------------
(* Release scheduler: claims C1 to C7 *)

\* Handler h handles an event for the tag id: a create or delete of the tag, or
\* a status of the commit the handler found the tag for
EventFor(h, id) ==
  \/ /\ handlers[h].kind \in {"create", "delete"}
     /\ handlers[h].refType = REF_TYPE_TAG
     /\ Id(handlers[h].ref) = id
  \/ /\ handlers[h].kind = "status"
     /\ handlers[h].tag # NoTag
     /\ Id(handlers[h].tag.ref) = id

OnlyStatusEvents == \A h \in 1..Len(handlers) : handlers[h].kind = "status"

\* C1: in a sequence of status events on one tag id, a dispatch for the id
\* starts only when RELEASE_TIMEOUT has elapsed since the most recent event for
\* the id: every event resets the window, whatever the handlers' interleaving.
C1_DispatchOnlyAfterQuietWindow ==
  OnlyStatusEvents =>
    \A d \in 1..Len(dispatches) : dispatches[d].eventAge >= RELEASE_TIMEOUT

\* C2, as claimed: performRelease is started at most once for a tag, however
\* long the stream of status events.
C2_AtMostOneDispatchPerTag ==
  \A d1, d2 \in 1..Len(dispatches) :
    dispatches[d1].tag = dispatches[d2].tag => d1 = d2

\* C2, amended: performRelease is started at most once per RELEASE_TIMEOUT
\* window for a tag id: a timer starts it at most once, and two starts for the
\* same id are at least RELEASE_TIMEOUT apart.
C2_AtMostOneDispatchPerWindow ==
  \A d1, d2 \in 1..Len(dispatches) :
    (d1 < d2 /\ dispatches[d1].id = dispatches[d2].id) =>
      /\ dispatches[d1].timer # dispatches[d2].timer
      /\ dispatches[d2].dispatchAge >= RELEASE_TIMEOUT

\* C2, witness: the same tag dispatched twice, by a stream of status events
C2_Witness_TwoDispatchesOfOneTag ==
  /\ OnlyStatusEvents
  /\ \E d1, d2 \in 1..Len(dispatches) :
       d1 < d2 /\ dispatches[d1].tag = dispatches[d2].tag

\* C3: once a subsequent event for the same id (create, delete or status) has
\* been handled, the release scheduled before it is never dispatched: its timer
\* does not fire.
C3_CancelledByAnySubsequentEvent ==
  [][\A t \in 1..Len(timers) :
       Fires(t) =>
         ~ \E h \in 1..Len(handlers) :
             h > timers[t].born /\ Finished(h) /\ EventFor(h, timers[t].id)]_vars

\* C4: when processTag completes, a release is scheduled for the tag's id if and
\* only if the kept statuses are non-empty and all success and targets are
\* configured; whatever the case, the release scheduled before is cancelled, and
\* a scheduled release is a new timer of RELEASE_TIMEOUT seconds for the tag.
C4_ScheduledIffGreenWithTargets ==
  [][\A h \in 1..Len(handlers) :
       Processes(h) =>
         LET tag == handlers[h].tag
             id == Id(tag.ref)
             config == handlers[h].config
             green == Green(handlers'[h].statuses, config) /\ Len(config.targets) > 0
             before == scheduledReleases[id]
             after == scheduledReleases'[id]
         IN /\ after # 0 <=> green
            /\ before # 0 => (timers'[before].state = "cleared" /\ after # before)
            /\ green => /\ after = Len(timers')
                        /\ Len(timers') = Len(timers) + 1
                        /\ timers'[after].state = "live"
                        /\ timers'[after].rem = RELEASE_TIMEOUT
                        /\ timers'[after].tag = tag]_vars

\* C4, witness: processTag has scheduled a release, and a later processTag for
\* the id has cancelled it and scheduled none
C4_Witness_ScheduledThenCancelled ==
  \E h1, h2 \in 1..Len(handlers) :
    /\ h1 < h2
    /\ handlers[h1].outcome = "schedule"
    /\ handlers[h2].outcome \in {"no-statuses", "pending", "failed"}
    /\ \E t \in 1..Len(timers) : timers[t].cancelled /\ timers[t].born = h1
    /\ scheduledReleases[Id(handlers[h1].tag.ref)] = 0

Stage(d) == CASE d.stage = "tempdir" -> 1 [] d.stage = "running" -> 2 [] d.stage = "done" -> 3

\* C5: the timer of a cancelled schedule never fires, so its dispatch never
\* runs; a dispatch that has started stays started whatever happens later: it
\* is never withdrawn, never falls back a stage, and its timer is not cancelled.
C5_CancelledNeverRuns ==
  [][/\ \A t \in 1..Len(timers) : timers[t].cancelled => ~ Fires(t)
     /\ \A d \in 1..Len(dispatches) :
          /\ ~ dispatches[d].wasCancelled
          /\ Len(dispatches') >= d
          /\ dispatches'[d].timer = dispatches[d].timer
          /\ Stage(dispatches'[d]) >= Stage(dispatches[d])
          /\ ~ timers'[dispatches[d].timer].cancelled]_vars

\* C5, witness: a schedule was cancelled, and a later schedule of the id was
\* dispatched and has run to its end
C5_Witness_CancelledAndLaterDispatched ==
  \E t \in 1..Len(timers), d \in 1..Len(dispatches) :
    /\ timers[t].cancelled
    /\ dispatches[d].id = timers[t].id
    /\ dispatches[d].timer > t
    /\ dispatches[d].stage = "done"

\* C6: several status events for the tagged commit arrive within one
\* RELEASE_TIMEOUT window and the last leaves a kept status pending: no release
\* is dispatched for the tag.
C6_PendingBurstDispatchesNothing ==
  ( /\ Len(handlers) >= 2
    /\ OnlyStatusEvents
    /\ srvTags["v1"] = "a1"
    /\ \E s \in Kept(srvStatuses["a1"], repoConfig) : s.state = STATE_PENDING )
  => dispatches = <<>>

\* C7: a tag-created event, then a status event that makes the only check
\* success, targets configured, no further event: when everything has come to
\* rest exactly one dispatch has occurred, and it invoked every configured
\* target once with the created tag and a store bound to owner/repo/sha.
C7_ExactlyOneDispatchAfterGreen ==
  ( /\ Len(handlers) = 2
    /\ handlers[1].kind = "create"
    /\ handlers[2].kind = "status"
    /\ Green(srvStatuses["a1"], repoConfig)
    /\ Len(repoConfig.targets) > 0
    /\ srvTags["v1"] = "a1"
    /\ Quiescent )
  => /\ Len(dispatches) = 1
     /\ LET d == dispatches[1]
        IN /\ Len(d.invoked) = Len(repoConfig.targets)
           /\ \A i \in 1..Len(d.invoked) :
                /\ d.invoked[i].target = repoConfig.targets[i]
                /\ d.invoked[i].tag.ref = "v1"
                /\ d.invoked[i].store.repo = Repo
                /\ d.invoked[i].store.sha = "a1"

-----------------------------------------------------------------------------
(* Tag cache: claims C8 to C10 *)

UniqueRefs(tags) ==
  \A i, j \in 1..Len(tags) : tags[i].ref = tags[j].ref => i = j

\* C8: a tag-created event followed by a tag-deleted event for the same ref:
\* once both handlers have ended, findTag of the created tag's sha does not
\* return the created tag, whatever the interleaving of the two handlers.
C8_DeletedTagNotFound ==
  \A c, d \in 1..Len(handlers) :
    ( /\ c < d
      /\ handlers[c].kind = "create" /\ handlers[c].refType = REF_TYPE_TAG
      /\ handlers[d].kind = "delete" /\ handlers[d].refType = REF_TYPE_TAG
      /\ handlers[c].ref = handlers[d].ref
      /\ handlers[c].sha # NoSha
      /\ Finished(c) /\ Finished(d)
      /\ \A e \in (d + 1)..Len(handlers) :
           ~ (handlers[e].kind = "create" /\ handlers[e].ref = handlers[c].ref)
      /\ CacheResolved )
    => FindTag(CachedTags, handlers[c].sha).ref # handlers[c].ref

\* C9: the tag list holds at most one entry per ref, at every moment of every
\* retrieval, and once addTag has completed for a ref the entry of the ref, as
\* long as there is one, carries the sha of the latest completed addTag.
C9_UniqueRefLatestShaWins ==
  \A p \in 1..Len(loads) :
    /\ UniqueRefs(loads[p].tags)
    /\ loads[p].state = "resolved" =>
         \A i \in 1..Len(loads[p].tags) :
           LET tag == loads[p].tags[i]
           IN lastAdd[tag.ref] # NoSha => tag.sha = lastAdd[tag.ref]

\* C9, witness: addTag has completed twice for a ref, with two shas, and the
\* list holds the ref with the second
C9_Witness_EntryReplaced ==
  /\ CacheResolved
  /\ \E h1, h2 \in 1..Len(handlers) :
       /\ handlers[h1].kind = "create" /\ handlers[h2].kind = "create"
       /\ handlers[h1].tag # NoTag /\ handlers[h2].tag # NoTag
       /\ handlers[h1].tag.ref = handlers[h2].tag.ref
       /\ handlers[h1].tag.sha # handlers[h2].tag.sha
       /\ lastAdd[handlers[h2].tag.ref] = handlers[h2].tag.sha
       /\ \E i \in 1..Len(CachedTags) : CachedTags[i] = handlers[h2].tag

\* C10: the paginated retrieval of a repository's tags is started at most
\* once, and every caller of getTags got the promise the cache holds: all
\* callers read and change the same list.
C10_OneRetrievalSharedByAll ==
  /\ Len(loads) <= 1
  /\ \A h \in 1..Len(handlers) :
       handlers[h].tags # 0 => handlers[h].tags = tagCache[Repo]

\* C10, witness: two callers await the retrieval at the same time, and it has
\* been started once
C10_Witness_ConcurrentCallers ==
  /\ Len(loads) = 1
  /\ loads[1].state # "resolved"
  /\ Len(loads[1].waiters) >= 2

-----------------------------------------------------------------------------
(* Ignored events: claim C27 *)

\* The event of handler h turns out to be one the handlers ignore, in this
\* step: a create or delete of something that is no tag arrives; the repository
\* has no release.yml; or findTag of a status handler runs on a tag list
\* without an entry of the status's sha
IgnoredNow(h) ==
  /\ h \in 1..Len(handlers')
  /\ LET new == h > Len(handlers)
         n == handlers'[h]
     IN \/ new /\ n.kind \in {"create", "delete"} /\ n.refType # REF_TYPE_TAG
        \/ /\ ~ repoConfig.present
           /\ \/ new /\ n.kind = "create"
              \/ ~ new /\ handlers[h].pc = "config" /\ n.pc # "config"
        \/ /\ ~ new
           /\ n.kind = "status"
           /\ handlers[h].pc \in {"config", "tags"}
           /\ n.pc \notin {"config", "tags"}
           /\ \A i \in 1..Len(loads'[n.tags].tags) : loads'[n.tags].tags[i].sha # n.sha

\* No other handler runs in this step
OnlyHandler(h) ==
  \A g \in 1..Len(handlers) : g # h => handlers'[g] = handlers[g]

\* C27: a step in which an event is ignored (a create or delete of a non-tag,
\* any event of a repository without release.yml, a status of a sha that no
\* cached tag has) ends the handler without a request for statuses and leaves
\* the entries of the tag cache, the scheduled releases and their timers as
\* they are.
C27_IgnoredEventNoEffect ==
  [][\A h \in 1..MaxEvents :
       (IgnoredNow(h) /\ OnlyHandler(h)) =>
         /\ handlers'[h].pc = "ignored"
         /\ handlers'[h].statuses = <<>>
         /\ scheduledReleases' = scheduledReleases
         /\ timers' = timers
         /\ dispatches' = dispatches
         /\ \A p \in 1..Len(loads) :
              /\ loads'[p].tags = loads[p].tags
              /\ loads[p].state = "resolved" => loads'[p].state = "resolved"]_vars

C27_Witness_IgnoredBesideScheduled ==
  /\ Len(handlers) = 2
  /\ handlers[1].kind = "status" /\ handlers[1].sha = "a1" /\ handlers[1].pc = "done"
  /\ scheduledReleases[Id("v1")] # 0
  /\ handlers[2].kind = "status" /\ handlers[2].sha = "b2" /\ handlers[2].pc = "ignored"
  /\ handlers[2].tags # 0

-----------------------------------------------------------------------------
(* One release, target by target: index.js performRelease, targets/index.js  *)
(* runTarget, files.js withTempDir                                           *)

\* Target specs of release.yml: two targets with a driver, a name without a
\* driver, and a spec that is not a target at all (null)
TargetSpecs == {"npm", "github", "bogus", "null"}

\* What the driver of a target does once called: its promise resolves, its
\* promise rejects, or it throws before returning a promise
DriverBehaviours == {"resolves", "rejects", "throws"}

\* Store types of release.yml, one of them without an implementation
StoreTypes == {"zeus", "bogus"}

SeqsUpTo(S, n) == UNION {[1..k -> S] : k \in 0..n}

\* try-require: the module of the name, or null
TryRequire(name) == name \in {"npm", "github", "zeus"}

\* stores/index.js createStore: throws for a type without an implementation
CreateStoreThrows(type) == ~ TryRequire(type)

\* targets/index.js runTarget up to `await targetFn(targetContext)`: an async
\* function, so whatever it throws rejects its promise. `driver` counts the
\* calls of the target's driver.
RunTarget(target, behaviour) ==
  IF target = "null" \/ ~ TryRequire(target)
  THEN [target |-> target, invoked |-> 1, driver |-> 0, state |-> "rejected",
        dirAtEnd |-> TRUE]
  ELSE [target |-> target, invoked |-> 1, driver |-> 1,
        state |-> IF behaviour = "throws" THEN "rejected" ELSE "pending",
        dirAtEnd |-> TRUE]

\* A promise without its error handler
CatchError_Missing(state) == state

\* index.js:283-285  promise.catch(e => logger.error(e)): a rejection is logged
\* and the promise the handler returns is fulfilled
CatchError(state) == IF state = "rejected" THEN "fulfilled" ELSE state

\* Promise.race in the place of Promise.all: settled as the first promise settles
PromiseAll_Race(states) ==
  IF \E i \in 1..Len(states) : states[i] = "rejected" THEN "rejected"
  ELSE IF \E i \in 1..Len(states) : states[i] = "fulfilled" THEN "fulfilled"
  ELSE IF states = <<>> THEN "fulfilled"
  ELSE "pending"

\* Promise.all: rejected as soon as one promise is rejected, fulfilled when all
\* are fulfilled
PromiseAll(states) ==
  IF \E i \in 1..Len(states) : states[i] = "rejected" THEN "rejected"
  ELSE IF \A i \in 1..Len(states) : states[i] = "fulfilled" THEN "fulfilled"
  ELSE "pending"

\* index.js:282-288  the promises performRelease awaits
Runs(r) == [i \in 1..Len(r.runs) |-> CatchError(r.runs[i].state)]

InitRelease ==
  /\ EngineIdle
  /\ AuxIdle("release")
  /\ \E store \in StoreTypes, targets \in SeqsUpTo(TargetSpecs, MaxTargets) :
       \E behaviours \in [1..Len(targets) -> DriverBehaviours] :
         release = [store |-> store, targets |-> targets, behaviours |-> behaviours,
                    stage |-> "start", dir |-> FALSE, runs |-> <<>>, errors |-> 0]

\* files.js:46  mkdtemp: the temp directory exists, the body starts
MakeTempDir ==
  /\ release.stage = "start"
  /\ release' = [release EXCEPT !.stage = "body", !.dir = TRUE]
  /\ UNCHANGED <<engineVars, targetRun, evaluation, publish, spawned, tempDirs, stores, downloads, targetCalls, lookups, debounce, dispatcher, statusFetch, chain, resolution>>

\* index.js:274-288  the body up to `await Promise.all(runs)`: a store that
\* cannot be created ends the body (the error is logged); otherwise runTarget
\* is called for every target in turn
LaunchTargets ==
  /\ release.stage = "body"
  /\ release' =
       IF CreateStoreThrows(release.store)
       THEN [release EXCEPT !.stage = "cleanup", !.errors = @ + 1]
       ELSE [release EXCEPT
               !.stage = "waiting",
               !.runs = [i \in 1..Len(release.targets) |->
                           RunTarget(release.targets[i], release.behaviours[i])],
               !.errors = @ + Cardinality({i \in 1..Len(release.targets) :
                    RunTarget(release.targets[i], release.behaviours[i]).state
                      = "rejected"})]
  /\ UNCHANGED <<engineVars, targetRun, evaluation, publish, spawned, tempDirs, stores, downloads, targetCalls, lookups, debounce, dispatcher, statusFetch, chain, resolution>>

\* The driver of target i ends: its promise settles, a rejection is logged. The
\* driver works in the temp directory: `dirAtEnd` records whether it still exists.
TargetSettles(i) ==
  /\ i \in 1..Len(release.runs)
  /\ release.runs[i].state = "pending"
  /\ release' = [release EXCEPT
       !.runs[i].state = IF release.behaviours[i] = "resolves" THEN "fulfilled"
                         ELSE "rejected",
       !.runs[i].dirAtEnd = release.dir,
       !.errors = IF release.behaviours[i] = "resolves" THEN @ ELSE @ + 1]
  /\ UNCHANGED <<engineVars, targetRun, evaluation, publish, spawned, tempDirs, stores, downloads, targetCalls, lookups, debounce, dispatcher, statusFetch, chain, resolution>>

\* index.js:288-291  `await Promise.all(runs)` returns or throws (logged): the
\* body ends
RunsSettled ==
  /\ release.stage = "waiting"
  /\ PromiseAll(Runs(release)) # "pending"
  /\ release' = [release EXCEPT !.stage = "cleanup"]
  /\ UNCHANGED <<engineVars, targetRun, evaluation, publish, spawned, tempDirs, stores, downloads, targetCalls, lookups, debounce, dispatcher, statusFetch, chain, resolution>>

\* files.js:49-51  finally: rimraf removes the temp directory
RemoveTempDir ==
  /\ release.stage = "cleanup"
  /\ release' = [release EXCEPT !.stage = "done", !.dir = FALSE]
  /\ UNCHANGED <<engineVars, targetRun, evaluation, publish, spawned, tempDirs, stores, downloads, targetCalls, lookups, debounce, dispatcher, statusFetch, chain, resolution>>

NextRelease ==
  \/ MakeTempDir
  \/ LaunchTargets
  \/ \E i \in 1..MaxTargets : TargetSettles(i)
  \/ RunsSettled
  \/ RemoveTempDir

SpecRelease == InitRelease /\ [][NextRelease]_vars

\* C11: once the targets are launched, every target spec of config.targets has
\* been handed to runTarget exactly once, every target with a driver has had its
\* driver called once, whatever the other targets are or do; and a running
\* driver is never cut short by another target's failure: while it runs the
\* release waits and the temp directory exists.
C11_TargetsIndependent ==
  release.stage \in {"waiting", "cleanup", "done"} /\ ~ CreateStoreThrows(release.store) =>
    /\ Len(release.runs) = Len(release.targets)
    /\ \A i \in 1..Len(release.runs) :
         /\ release.runs[i].target = release.targets[i]
         /\ release.runs[i].invoked = 1
         /\ release.runs[i].driver = IF release.targets[i] \in {"npm", "github"} THEN 1 ELSE 0
         /\ release.runs[i].state = "pending" => release.stage = "waiting" /\ release.dir
         /\ release.runs[i].dirAtEnd
         /\ (release.stage = "done" /\ release.runs[i].driver = 1
               /\ release.behaviours[i] = "resolves")
              => release.runs[i].state = "fulfilled"

\* C11, witness: a target has failed while the driver of another is running
C11_Witness_FailedBesideRunning ==
  /\ release.stage = "waiting"
  /\ \E i, j \in 1..Len(release.runs) :
       /\ release.runs[i].state = "rejected"
       /\ release.runs[j].state = "pending"

\* C34: within one dispatch the temp directory is removed only after every
\* launched target has settled, also when some targets failed at once: while a
\* target runs the directory exists, no target runs once the body has ended,
\* and every target found the directory in place when it ended.
C34_WorkspaceOutlivesTargets ==
  /\ \A i \in 1..Len(release.runs) :
       /\ release.runs[i].state = "pending" => release.dir
       /\ release.runs[i].state # "pending" => release.runs[i].dirAtEnd
  /\ release.stage \in {"cleanup", "done"} =>
       \A i \in 1..Len(release.runs) : release.runs[i].state # "pending"
  /\ (release.stage = "done" /\ ~ CreateStoreThrows(release.store)) =>
       Len(release.runs) = Len(release.targets)

\* C34, witness: the directory is gone after a target without a driver failed
\* at once and another target's driver ended later, in the directory
C34_Witness_RemovedAfterLateTarget ==
  /\ release.stage = "done"
  /\ ~ release.dir
  /\ \E i, j \in 1..Len(release.runs) :
       /\ release.runs[i].driver = 0 /\ release.runs[i].state = "rejected"
       /\ release.runs[j].driver = 1 /\ release.runs[j].state = "fulfilled"
       /\ release.runs[j].dirAtEnd

-----------------------------------------------------------------------------
(* The targets' drivers and the dry-run gate: dryrun.js, targets/*.js        *)

\* Values of the environment variable DRY_RUN ("undefined": not set)
DryRunValues == {"true", "1", "yes", "TRUE", "false", "undefined"}

\* dryrun.js isDryRun
IsDryRun(DRY_RUN) == DRY_RUN \in {"true", "1", "yes"}

\* A gate that knows "true" only
ShouldPerform_TrueOnly(DRY_RUN) == DRY_RUN # "true"

\* dryrun.js shouldPerform
ShouldPerform(DRY_RUN) == ~ IsDryRun(DRY_RUN)

Drivers == {"npm", "pypi", "pods", "cargo", "github", "docker", "brew"}

\* What a driver finds: its secrets in the environment (token, credentials,
\* trigger URL), the number of artifacts it releases (tarball, wheels, files,
\* crates), and whether what it looks up on the hosting provider exists
\* (podspec, release of the tag, formula)
DriverEnvs == [secrets : BOOLEAN, files : 0..MaxFiles, exists : BOOLEAN]

\* One operation of a driver: a log statement, a spawned process, a mutating
\* call of the hosting API, a POST to a service, a read (hosting API, store,
\* download), or a throw, which ends the driver
Log(what) == [kind |-> "log", what |-> what]
SpawnOp(what) == [kind |-> "spawn", what |-> what]
Api(what) == [kind |-> "api", what |-> what]
Post(what) == [kind |-> "post", what |-> what]
Read(what) == [kind |-> "read", what |-> what]
Throw(what) == [kind |-> "throw", what |-> what]

\* `if (shouldPerform()) effect` and `shouldPerform() && effect`
Guarded(perform, ops) == IF perform THEN ops ELSE <<>>

RECURSIVE Repeat(_, _)
Repeat(ops, n) == IF n = 0 THEN <<>> ELSE ops \o Repeat(ops, n - 1)

\* targets/npm.js:41-58
NpmOps(perform, env) ==
  <<Read("store.listFiles")>> \o
  (IF env.files = 0
   THEN <<Log("Skipping NPM release since there is no package tarball")>>
   ELSE <<Read("store.downloadFile"), Log("Releasing to NPM")>> \o
        Guarded(perform, <<SpawnOp("npm publish")>>) \o
        <<Log("NPM release completed")>>)

\* targets/pypi.js:47-81
PypiOps(perform, env) ==
  IF ~ env.secrets
  THEN <<Log("Skipping PyPI release due to missing credentials")>>
  ELSE <<Read("store.listFiles")>> \o
       (IF env.files = 0
        THEN <<Log("Skipping PyPI release since there are no wheels")>>
        ELSE <<Log("Releasing wheels to PyPI")>> \o
             Repeat(<<Read("store.downloadFile"), Log("Uploading asset via twine")>> \o
                    Guarded(perform, <<SpawnOp("twine upload")>>), env.files) \o
             <<Log("PyPI release completed")>>)

\* targets/pods.js:23-58
PodsOps(perform, env) ==
  IF ~ env.secrets
  THEN <<Log("Skipping cocoapods release due to missing trunk token")>>
  ELSE <<Log("Loading podspec"), Read("repos.getContent")>> \o
       (IF ~ env.exists
        THEN <<Log("Podspec not found")>>
        ELSE <<Log("Pushing podspec to cocoapods")>> \o
             Guarded(perform, <<SpawnOp("pod repo update"), SpawnOp("pod trunk push")>>) \o
             <<Log("Cocoapods release completed")>>)

\* targets/cargo.js:192-205, 44-110, 153-183
CargoOps(perform, env) ==
  IF ~ env.secrets
  THEN <<Log("Skipping cargo release due to missing token")>>
  ELSE <<Log("Downloading sources"), Read("fetch archive"), Log("Extracting sources"),
         Log("Loading workspace information"), SpawnOp("cargo metadata")>> \o
       Repeat(<<Log("Releasing crate")>> \o Guarded(perform, <<SpawnOp("cargo publish")>>),
              env.files) \o
       <<Log("Cargo release completed")>>

\* targets/github.js getOrCreateRelease and the driver
GithubOps(perform, env) ==
  <<Read("repos.getReleaseByTag")>> \o
  (IF env.exists THEN <<>>
   ELSE <<Read("repos.getContent"), Log("Creating release")>> \o
        Guarded(perform, <<Api("repos.createRelease")>>)) \o
  <<Read("store.listFiles")>> \o
  Repeat(<<Read("store.downloadFile"), Log("Uploading asset")>> \o
         Guarded(perform, <<Api("repos.uploadAsset")>>), env.files) \o
  <<Log("Github release completed")>>

\* targets/docker.js: the missing trigger URL is logged, and the driver goes on
DockerOps(perform, env) ==
  (IF ~ env.secrets
   THEN <<Log("Skipping docker build due to missing build trigger URL")>>
   ELSE <<>>) \o
  <<Log("Triggering Docker Cloud build via API")>> \o
  Guarded(perform, <<Post("docker trigger")>>) \o
  <<Log("Docker Cloud build triggered successfully")>>

\* targets/brew.js:94-159: the driver reads its parameters from its config
\* (`secrets`: they are there) and throws without them
BrewOps(perform, env) ==
  IF ~ env.secrets
  THEN <<Throw("Missing template parameter in brew configuration")>>
  ELSE <<Read("store.downloadAll"), Log("Homebrew formula"), Log("Loading SHA"),
         Read("repos.getContent"), Log("Releasing to homebrew tap")>> \o
       (IF ~ env.exists
        THEN <<Log("Creating new file")>> \o Guarded(perform, <<Api("repos.createFile")>>)
        ELSE <<Log("Updating file")>> \o Guarded(perform, <<Api("repos.updateFile")>>)) \o
       <<Log("Homebrew release completed")>>

\* The operations of a driver, in the order it performs them
DriverOps(target, perform, env) ==
  CASE target = "npm" -> NpmOps(perform, env)
    [] target = "pypi" -> PypiOps(perform, env)
    [] target = "pods" -> PodsOps(perform, env)
    [] target = "cargo" -> CargoOps(perform, env)
    [] target = "github" -> GithubOps(perform, env)
    [] target = "docker" -> DockerOps(perform, env)
    [] target = "brew" -> BrewOps(perform, env)

Logs(ops) == SelectSeq(ops, LAMBDA op : op.kind = "log")

InitDryRun ==
  /\ EngineIdle
  /\ AuxIdle("targetRun")
  /\ \E target \in Drivers, value \in DryRunValues, env \in DriverEnvs :
       targetRun = [target |-> target, DRY_RUN |-> value, env |-> env, pc |-> 1,
                    logs |-> <<>>, effects |-> <<>>, thrown |-> FALSE]

\* The driver's operations in this run
RunOps == DriverOps(targetRun.target, ShouldPerform(targetRun.DRY_RUN), targetRun.env)

\* The driver's next operation is a log statement
DriverLogs ==
  /\ targetRun.pc <= Len(RunOps)
  /\ RunOps[targetRun.pc].kind = "log"
  /\ targetRun' = [targetRun EXCEPT !.pc = @ + 1, !.logs = Append(@, RunOps[targetRun.pc])]
  /\ UNCHANGED <<engineVars, release, evaluation, publish, spawned, tempDirs, stores, downloads, targetCalls, lookups, debounce, dispatcher, statusFetch, chain, resolution>>

\* The driver's next operation reaches outside the process
DriverActs ==
  /\ targetRun.pc <= Len(RunOps)
  /\ RunOps[targetRun.pc].kind \notin {"log", "throw"}
  /\ targetRun' = [targetRun EXCEPT !.pc = @ + 1,
                                    !.effects = Append(@, RunOps[targetRun.pc])]
  /\ UNCHANGED <<engineVars, release, evaluation, publish, spawned, tempDirs, stores, downloads, targetCalls, lookups, debounce, dispatcher, statusFetch, chain, resolution>>

\* The driver throws: its promise rejects
DriverThrows ==
  /\ targetRun.pc <= Len(RunOps)
  /\ RunOps[targetRun.pc].kind = "throw"
  /\ targetRun' = [targetRun EXCEPT !.pc = @ + 1, !.thrown = TRUE]
  /\ UNCHANGED <<engineVars, release, evaluation, publish, spawned, tempDirs, stores, downloads, targetCalls, lookups, debounce, dispatcher, statusFetch, chain, resolution>>

NextDryRun ==
  \/ DriverLogs
  \/ DriverActs
  \/ DriverThrows

SpecDryRun == InitDryRun /\ [][NextDryRun]_vars

\* Dry-run is enabled: DRY_RUN is true, 1 or yes
DryRunEnabled == targetRun.DRY_RUN \in {"true", "1", "yes"}

Effects(kinds) ==
  {targetRun.effects[i] : i \in {j \in 1..Len(targetRun.effects) :
                                   targetRun.effects[j].kind \in kinds}}

C25_MissingPrerequisiteSkipped ==
  (targetRun.target \in {"cargo", "pypi", "pods", "docker", "brew"} /\ ~ targetRun.env.secrets) =>
    /\ ~ targetRun.thrown
    /\ targetRun.effects = <<>>
    /\ targetRun.pc > Len(RunOps) => Len(targetRun.logs) = 1

-----------------------------------------------------------------------------
(* The status evaluator on its own: filterLatestStatuses and the decision of *)
(* processTag, on every status list                                          *)

\* Statuses as the hosting provider reports them, in any order
StatusValues == [context : Contexts, state : States, updated_at : 1..2]

\* ignoredChecks of release.yml: none; a prefix of one context; a whole context
\* and a prefix longer than every context
IgnoredOptions == { {}, {<<"c", "o">>}, {CtxCI, <<"c", "o", "v", "x">>} }

EvalConfigs ==
  [present : {TRUE}, store : {"zeus"}, targets : {<<>>, <<"npm">>},
   ignoredChecks : IgnoredOptions]

Ignored(context, config) ==
  \E check \in config.ignoredChecks : StartsWith(context, check)

InitStatuses ==
  /\ EngineIdle
  /\ AuxIdle("evaluation")
  /\ \E statuses \in SeqsUpTo(StatusValues, MaxStatuses), config \in EvalConfigs :
       evaluation = [statuses |-> statuses, config |-> config, evaluated |-> FALSE,
                     latest |-> {}, outcome |-> "none",
                     first |-> "none", firstLatest |-> {}, changed |-> FALSE]

\* index.js:322, 332-355  processTag evaluates the status list: the latest
\* statuses and the decision. `first` keeps the result for the list as it was.
Evaluate ==
  /\ ~ evaluation.evaluated
  /\ LET latest == FilterLatestStatuses(evaluation.statuses, evaluation.config)
         outcome == Decide(latest, evaluation.config)
     IN evaluation' = [evaluation EXCEPT
          !.evaluated = TRUE, !.latest = latest, !.outcome = outcome,
          !.first = IF @ = "none" THEN outcome ELSE @,
          !.firstLatest = IF evaluation.first = "none" THEN latest ELSE @]
  /\ UNCHANGED <<engineVars, release, targetRun, publish, spawned, tempDirs, stores, downloads, targetCalls, lookups, debounce, dispatcher, statusFetch, chain, resolution>>

\* A check with an ignored context reports a status, anywhere in the list
IgnoredStatusAdded(i, status) ==
  /\ evaluation.first # "none"
  /\ Len(evaluation.statuses) < MaxStatuses
  /\ i \in 0..Len(evaluation.statuses)
  /\ Ignored(status.context, evaluation.config)
  /\ evaluation' = [evaluation EXCEPT
       !.statuses = SubSeq(@, 1, i) \o <<status>> \o SubSeq(@, i + 1, Len(@)),
       !.evaluated = FALSE, !.changed = TRUE]
  /\ UNCHANGED <<engineVars, release, targetRun, publish, spawned, tempDirs, stores, downloads, targetCalls, lookups, debounce, dispatcher, statusFetch, chain, resolution>>

\* A status with an ignored context is taken from the list
IgnoredStatusDropped(i) ==
  /\ evaluation.first # "none"
  /\ i \in 1..Len(evaluation.statuses)
  /\ Ignored(evaluation.statuses[i].context, evaluation.config)
  /\ evaluation' = [evaluation EXCEPT !.statuses = Splice(@, i), !.evaluated = FALSE,
                                      !.changed = TRUE]
  /\ UNCHANGED <<engineVars, release, targetRun, publish, spawned, tempDirs, stores, downloads, targetCalls, lookups, debounce, dispatcher, statusFetch, chain, resolution>>

NextStatuses ==
  \/ Evaluate
  \/ \E i \in 0..MaxStatuses, status \in StatusValues : IgnoredStatusAdded(i, status)
  \/ \E i \in 1..MaxStatuses : IgnoredStatusDropped(i)

SpecStatuses == InitStatuses /\ [][NextStatuses]_vars

StatusSet == {evaluation.statuses[i] : i \in 1..Len(evaluation.statuses)}

\* C13: filterLatestStatuses returns at most one entry per context; the entry
\* is a status of the input with the maximum updated_at of its context; every
\* context of the input that is not ignored has its entry; no entry has an
\* ignored context.
C13_LatestPerContext ==
  evaluation.evaluated =>
    /\ \A a, b \in evaluation.latest : a.context = b.context => a = b
    /\ \A e \in evaluation.latest :
         /\ e \in StatusSet
         /\ \A s \in StatusSet : s.context = e.context => s.updated_at <= e.updated_at
         /\ ~ Ignored(e.context, evaluation.config)
    /\ \A s \in StatusSet :
         ~ Ignored(s.context, evaluation.config) =>
           \E e \in evaluation.latest : e.context = s.context

\* C13, witness: a list evaluated in which the latest status of a context comes
\* after an older one of the same context, beside a status of an ignored context
C13_Witness_LatestNotFirst ==
  /\ evaluation.evaluated
  /\ \E i, j \in 1..Len(evaluation.statuses) :
       /\ i < j
       /\ evaluation.statuses[i].context = evaluation.statuses[j].context
       /\ evaluation.statuses[i].updated_at < evaluation.statuses[j].updated_at
       /\ evaluation.statuses[j] \in evaluation.latest
  /\ \E s \in StatusSet : Ignored(s.context, evaluation.config)

\* The aggregate state of a kept status set, as the spec defines it
AggregateState(kept) ==
  IF kept = {} \/ \E s \in kept : s.state = STATE_PENDING THEN "Pending"
  ELSE IF \A s \in kept : s.state = STATE_SUCCESS THEN "Success"
  ELSE "Failed"

\* The aggregate state processTag has acted on, by the branch it took
ActedOn(outcome) ==
  CASE outcome \in {"no-statuses", "pending"} -> "Pending"
    [] outcome = "failed" -> "Failed"
    [] outcome \in {"no-targets", "schedule"} -> "Success"

\* C14: processTag acts on Pending when the kept set is empty or holds a
\* pending status (also beside a failed one), on Success when the set is not
\* empty and all success, on Failed otherwise; it schedules on Success only.
C14_AggregateState ==
  evaluation.evaluated =>
    /\ ActedOn(evaluation.outcome) = AggregateState(evaluation.latest)
    /\ evaluation.outcome = "schedule" =>
         /\ AggregateState(evaluation.latest) = "Success"
         /\ Len(evaluation.config.targets) > 0

\* C14, witness: a kept set with a pending and a failed status, acted on as Pending
C14_Witness_PendingBesideFailed ==
  /\ evaluation.evaluated
  /\ evaluation.outcome = "pending"
  /\ \E s \in evaluation.latest : s.state = "failure"

\* C15: status lists that differ only in statuses of ignored contexts yield the
\* same kept statuses, the same aggregate state and the same decision: after
\* statuses of ignored contexts have come and gone, processTag decides as it did
\* on the list as it was.
C15_IgnoredChecksNoInfluence ==
  evaluation.evaluated =>
    /\ evaluation.latest = evaluation.firstLatest
    /\ evaluation.outcome = evaluation.first

\* C15, witness: a failed status of an ignored context has been added to the
\* list, and processTag schedules the release as before
C15_Witness_IgnoredFailureScheduled ==
  /\ evaluation.evaluated
  /\ evaluation.changed
  /\ evaluation.outcome = "schedule"
  /\ \E s \in StatusSet : s.state = "failure" /\ Ignored(s.context, evaluation.config)

-----------------------------------------------------------------------------
(* The publish order of a cargo workspace: cargo.js getPublishOrder          *)

\* Package names. Every name is a valid crate name; "constructor" is also the
\* name of a property every JavaScript object inherits.
PackageNames == {"core", "util", "constructor"}

\* The property names an object literal inherits from Object.prototype, among
\* the package names
ObjectPrototype == {"constructor"}

\* Packages of a workspace: unique names, each with the names it depends on
\* (in the workspace or not)
Packages ==
  {pkgs \in SeqsUpTo([name : PackageNames, dependencies : SUBSET PackageNames], MaxPackages) :
     \A i, j \in 1..Len(pkgs) : pkgs[i].name = pkgs[j].name => i = j}

\* cargo.js:126  _.keyBy(packages, p => p.name): an object literal with one own
\* property per package, here the set of the own property names
KeyBy(pkgs) == {pkgs[i].name : i \in 1..Len(pkgs)}

\* cargo.js:135  remaining[dep.name] as a condition: the own property if there
\* is one, otherwise the inherited one; a function is truthy
Truthy(remaining, name) == name \in remaining \/ name \in ObjectPrototype

\* _.filter over the packages of the input in the place of the remaining ones
NoRemainingDependencies_Packages(pkgs, remaining) ==
  SelectSeq(pkgs, LAMBDA p :
    {dep \in p.dependencies : Truthy(remaining, dep)} = {})

\* cargo.js:132-136  _.filter(remaining, ...): the packages with no remaining
\* dependency, in the order of the object's keys
NoRemainingDependencies(pkgs, remaining) ==
  SelectSeq(pkgs, LAMBDA p :
    /\ p.name \in remaining
    /\ {dep \in p.dependencies : Truthy(remaining, dep)} = {})

InitPublish ==
  /\ EngineIdle
  /\ AuxIdle("publish")
  /\ \E pkgs \in Packages :
       publish = [packages |-> pkgs, remaining |-> KeyBy(pkgs), ordered |-> <<>>,
                  rounds |-> 0, returned |-> FALSE]

\* cargo.js:131-140  one round of the loop: every package without a remaining
\* dependency is pushed and deleted. (Rounds are counted up to one more than
\* there are packages.)
PublishRound ==
  /\ ~ publish.returned
  /\ publish.remaining # {}
  /\ publish.rounds <= Len(publish.packages)
  /\ LET next == NoRemainingDependencies(publish.packages, publish.remaining)
     IN publish' = [publish EXCEPT
          !.ordered = @ \o next,
          !.remaining = @ \ {next[i].name : i \in 1..Len(next)},
          !.rounds = @ + 1]
  /\ UNCHANGED <<engineVars, release, targetRun, evaluation, spawned, tempDirs, stores, downloads, targetCalls, lookups, debounce, dispatcher, statusFetch, chain, resolution>>

\* cargo.js:131, 142  nothing remains: the order is returned
PublishReturn ==
  /\ ~ publish.returned
  /\ publish.remaining = {}
  /\ publish' = [publish EXCEPT !.returned = TRUE]
  /\ UNCHANGED <<engineVars, release, targetRun, evaluation, spawned, tempDirs, stores, downloads, targetCalls, lookups, debounce, dispatcher, statusFetch, chain, resolution>>

NextPublish ==
  \/ PublishRound
  \/ PublishReturn

SpecPublish == InitPublish /\ [][NextPublish]_vars

\* The dependencies of a package that are packages of the set
InSet(p) == p.dependencies \cap KeyBy(publish.packages)

\* The in-set dependency graph has no cycle: the packages can be ranked with
\* every package above its in-set dependencies
Acyclic ==
  \E rank \in [KeyBy(publish.packages) -> 1..Len(publish.packages)] :
    \A i \in 1..Len(publish.packages) :
      \A dep \in InSet(publish.packages[i]) : rank[dep] < rank[publish.packages[i].name]

\* The returned order holds every package once, each after all of its
\* dependencies in the set
Topological(order, pkgs) ==
  /\ Len(order) = Len(pkgs)
  /\ \A i \in 1..Len(pkgs) :
       /\ \E j \in 1..Len(order) : order[j] = pkgs[i]
       /\ \A dep \in pkgs[i].dependencies \cap KeyBy(pkgs) :
            \E j, k \in 1..Len(order) :
              j < k /\ order[j].name = dep /\ order[k] = pkgs[i]

\* C16: on a set with an acyclic in-set dependency graph the returned order
\* holds every package once, each after all of its dependencies in the set; a
\* dependency on a name outside the set is no constraint: a round leaves
\* behind only packages with a dependency in the set that was still to be
\* ordered.
C16_PublishOrderTopological ==
  [][Acyclic =>
       /\ publish'.returned => Topological(publish'.ordered, publish.packages)
       /\ \A i \in 1..Len(publish.packages) :
            publish.packages[i].name \in publish'.remaining =>
              InSet(publish.packages[i]) \cap publish.remaining # {}]_vars

\* C17: on a set with an acyclic in-set dependency graph the loop runs at most
\* as many rounds as there are packages, each round removing a package.
C17_PublishOrderTerminates ==
  Acyclic =>
    /\ publish.rounds <= Len(publish.packages)
    /\ Cardinality(publish.remaining) <= Len(publish.packages) - publish.rounds

\* The names of the packages ordered so far
OrderedNames == {publish.ordered[i].name : i \in 1..Len(publish.ordered)}

\* C40: on a list of packages with distinct names and an acyclic in-set
\* dependency graph, the order getPublishOrder builds and returns is a
\* permutation of the input: round by round every package is either ordered,
\* once, or still remaining, nothing else is ordered, and the returned order
\* holds every package exactly once.
C40_PublishOrderIsPermutation ==
  Acyclic =>
    /\ \A i, j \in 1..Len(publish.ordered) :
         publish.ordered[i].name = publish.ordered[j].name => i = j
    /\ \A i \in 1..Len(publish.ordered) :
         \E k \in 1..Len(publish.packages) : publish.ordered[i] = publish.packages[k]
    /\ OrderedNames \cap publish.remaining = {}
    /\ OrderedNames \cup publish.remaining = KeyBy(publish.packages)
    /\ publish.returned =>
         /\ Len(publish.ordered) = Len(publish.packages)
         /\ \A k \in 1..Len(publish.packages) :
              Cardinality({i \in 1..Len(publish.ordered) :
                             publish.ordered[i] = publish.packages[k]}) = 1

\* C40, witness: an order of two packages has been returned after two rounds,
\* the package listed first ordered last
C40_Witness_TwoRoundsReturned ==
  /\ publish.returned
  /\ publish.rounds = 2
  /\ Len(publish.packages) = 2
  /\ publish.ordered = <<publish.packages[2], publish.packages[1]>>

-----------------------------------------------------------------------------
(* Failing child processes: utils.js stripEnv, processError, spawn           *)

EnvKeys == {"PATH", "PASSWORD", "TOKEN"}
EnvValues == {"x", "s3cret"}

\* JavaScript values of the env property: absent, a map from names to values
\* (in the order of its keys), or an array of strings
Undefined == [type |-> "undefined"]
EnvMap(entries) == [type |-> "object", entries |-> entries]
Array(items) == [type |-> "array", items |-> items]

EnvMaps ==
  {EnvMap(entries) : entries \in
     {e \in SeqsUpTo(EnvKeys \X EnvValues, MaxEnv) :
        \A i, j \in 1..Len(e) : e[i][1] = e[j][1] => i = j}}

\* Options passed to spawn
SpawnOptions == [cwd : {"none", "dir"}, env : EnvMaps \cup {Undefined}]

\* Object.keys(map): the key names in the order of the map
ObjectKeys(map) == [i \in 1..Len(map.entries) |-> map.entries[i][1]]

\* utils.js:115-118  stripEnv on the object at `ref`: a new object is
\* allocated and receives the properties of the options, then the override
StripEnv_Keep(heap, ref) ==
  Append(heap, heap[ref])

StripEnv(heap, ref) ==
  LET options == heap[ref]
      copy == options
  IN Append(heap,
       IF options.env.type = "object"
       THEN [copy EXCEPT !.env = Array(ObjectKeys(options.env))]
       ELSE copy)

\* utils.js:129-135  processError: the error and the heap with the stripped
\* options, which the error refers to
ProcessError(heap, code, args, ref) ==
  LET stripped == StripEnv(heap, ref)
  IN [heap |-> stripped,
      error |-> [code |-> code, args |-> args, options |-> Len(stripped)]]

NoError == [code |-> "none", args |-> <<>>, options |-> 0]

\* Two spawn calls, each with its own options object (heap[1], heap[2])
InitSpawn ==
  /\ EngineIdle
  /\ AuxIdle("spawned")
  /\ \E a, b \in SpawnOptions :
       spawned = [given |-> <<a, b>>, heap |-> <<a, b>>,
                  settled |-> <<"pending", "pending">>,
                  error |-> <<NoError, NoError>>]

Reject(i, code) ==
  LET e == ProcessError(spawned.heap, code, <<>>, i)
  IN spawned' = [spawned EXCEPT !.heap = e.heap, !.settled[i] = "rejected",
                                !.error[i] = e.error]

\* utils.js:160  the child exits: resolve on code 0, otherwise fail({ code })
ChildExits(i, code) ==
  /\ spawned.settled[i] = "pending"
  /\ IF code = "0"
     THEN spawned' = [spawned EXCEPT !.settled[i] = "resolved"]
     ELSE Reject(i, code)
  /\ UNCHANGED <<engineVars, release, targetRun, evaluation, publish, tempDirs, stores, downloads, targetCalls, lookups, debounce, dispatcher, statusFetch, chain, resolution>>

\* utils.js:161  the child could not be spawned: fail(error)
ChildErrors(i) ==
  /\ spawned.settled[i] = "pending"
  /\ Reject(i, "ENOENT")
  /\ UNCHANGED <<engineVars, release, targetRun, evaluation, publish, tempDirs, stores, downloads, targetCalls, lookups, debounce, dispatcher, statusFetch, chain, resolution>>

NextSpawn ==
  \/ \E i \in 1..2, code \in {"0", "1"} : ChildExits(i, code)
  \/ \E i \in 1..2 : ChildErrors(i)

SpecSpawn == InitSpawn /\ [][NextSpawn]_vars

\* The strings an options object holds
Strings(options) ==
  {options.cwd} \cup
  (CASE options.env.type = "object" ->
          {options.env.entries[i][1] : i \in 1..Len(options.env.entries)} \cup
          {options.env.entries[i][2] : i \in 1..Len(options.env.entries)}
     [] options.env.type = "array" ->
          {options.env.items[i] : i \in 1..Len(options.env.items)}
     [] OTHER -> {})

Failed(i) == spawned.settled[i] = "rejected"
HasEnv(i) == spawned.given[i].env.type = "object"
ErrorOptions(i) == spawned.heap[spawned.error[i].options]

\* The two calls differ at most in the values of their env maps
DifferOnlyInEnvValues ==
  /\ HasEnv(1) /\ HasEnv(2)
  /\ spawned.given[1].cwd = spawned.given[2].cwd
  /\ ObjectKeys(spawned.given[1].env) = ObjectKeys(spawned.given[2].env)

\* C18: the error of a failed spawn whose options have an env map carries the
\* options with env as the list of the map's key names and with none of its
\* values; two failed spawns that differ only in env values carry equal
\* options; the caller's options object is as it was passed.
C18_ErrorOptionsCarryNoEnvValues ==
  /\ \A i \in 1..2 :
       /\ spawned.heap[i] = spawned.given[i]
       /\ (Failed(i) /\ HasEnv(i)) =>
            /\ ErrorOptions(i).env = Array(ObjectKeys(spawned.given[i].env))
            /\ ErrorOptions(i).cwd = spawned.given[i].cwd
            /\ Strings(ErrorOptions(i)) \cap EnvValues = {}
            /\ spawned.error[i].options \notin {1, 2}
  /\ (Failed(1) /\ Failed(2) /\ DifferOnlyInEnvValues) =>
       ErrorOptions(1) = ErrorOptions(2)

C18_Witness_SameKeysOtherValues ==
  /\ Failed(1) /\ Failed(2) /\ DifferOnlyInEnvValues
  /\ Len(spawned.given[1].env.entries) = 2
  /\ \A k \in 1..2 : spawned.given[1].env.entries[k][2] # spawned.given[2].env.entries[k][2]
  /\ spawned.error[1].code # spawned.error[2].code

-----------------------------------------------------------------------------
(* Temporary directories: files.js withTempDir                               *)

\* What the callback does: return a value, throw, or return a promise that is
\* resolved or rejected later
BodyKinds == {"returns", "throws", "resolves", "rejects"}
BodyValues == {"result", "fail"}

\* The directories mkdtemp can create, each one a directory of its own
DirNames == 1..(MaxCalls + 1)

Pending == [state |-> "pending", value |-> "none"]
Fulfilled(value) == [state |-> "fulfilled", value |-> value]
RejectedWith(value) == [state |-> "rejected", value |-> value]

\* The outcome of a body of the given kind once it has ended
BodyOutcome(kind, value) ==
  IF kind \in {"returns", "resolves"} THEN Fulfilled(value) ELSE RejectedWith(value)

\* files.js:47-51  try { return await callback(directory) } finally { await
\* rimraf(directory) }: the body has ended with `outcome`, rimraf is called
\* and the outcome kept for the caller
Finally_OnSuccessOnly(outcome) ==
  IF outcome.state = "rejected"
  THEN [pc |-> "settling", outcome |-> outcome]
  ELSE [pc |-> "rimraf", outcome |-> outcome]

Finally(outcome) ==
  [pc |-> "rimraf", outcome |-> outcome]

InitTempDirs ==
  /\ EngineIdle
  /\ AuxIdle("tempDirs")
  /\ \E kinds \in [1..MaxCalls -> BodyKinds], values \in [1..MaxCalls -> BodyValues] :
       tempDirs = [fs |-> {},
                   calls |-> [i \in 1..MaxCalls |->
                     [kind |-> kinds[i], value |-> values[i], pc |-> "mkdtemp",
                      directory |-> 0, existed |-> FALSE,
                      outcome |-> Pending, promise |-> Pending]]]

\* files.js:46-48  mkdtemp has created a new directory and the callback is
\* called with it; a callback that throws leads to the finally block at once
MkdtempDone(i) ==
  /\ tempDirs.calls[i].pc = "mkdtemp"
  /\ \E d \in DirNames \ {tempDirs.calls[j].directory : j \in 1..MaxCalls} :
       LET c == tempDirs.calls[i]
           entered == [c EXCEPT !.directory = d, !.existed = TRUE]
           next == IF c.kind = "throws"
                   THEN Finally(RejectedWith(c.value))
                   ELSE [pc |-> "body", outcome |-> Pending]
       IN tempDirs' = [fs |-> tempDirs.fs \cup {d},
                       calls |-> [tempDirs.calls EXCEPT ![i] =
                         [entered EXCEPT !.pc = next.pc, !.outcome = next.outcome]]]
  /\ UNCHANGED <<engineVars, release, targetRun, evaluation, publish, spawned, stores, downloads, targetCalls, lookups, debounce, dispatcher, statusFetch, chain, resolution>>

\* files.js:48  the awaited value of the callback is there: the value it
\* returned, or its promise resolved or rejected
BodySettled(i) ==
  /\ tempDirs.calls[i].pc = "body"
  /\ LET c == tempDirs.calls[i]
         next == Finally(BodyOutcome(c.kind, c.value))
     IN tempDirs' = [tempDirs EXCEPT !.calls[i].pc = next.pc,
                                     !.calls[i].outcome = next.outcome]
  /\ UNCHANGED <<engineVars, release, targetRun, evaluation, publish, spawned, stores, downloads, targetCalls, lookups, debounce, dispatcher, statusFetch, chain, resolution>>

\* files.js:50  rimraf has removed the directory and all contents
RimrafDone(i) ==
  /\ tempDirs.calls[i].pc = "rimraf"
  /\ tempDirs' = [tempDirs EXCEPT !.fs = @ \ {tempDirs.calls[i].directory},
                                  !.calls[i].pc = "settling"]
  /\ UNCHANGED <<engineVars, release, targetRun, evaluation, publish, spawned, stores, downloads, targetCalls, lookups, debounce, dispatcher, statusFetch, chain, resolution>>

\* files.js:48-52  the promise of withTempDir settles as the body ended
TempDirSettled(i) ==
  /\ tempDirs.calls[i].pc = "settling"
  /\ tempDirs' = [tempDirs EXCEPT !.calls[i].pc = "done",
                                  !.calls[i].promise = tempDirs.calls[i].outcome]
  /\ UNCHANGED <<engineVars, release, targetRun, evaluation, publish, spawned, stores, downloads, targetCalls, lookups, debounce, dispatcher, statusFetch, chain, resolution>>

NextTempDirs ==
  \/ \E i \in 1..MaxCalls : MkdtempDone(i)
  \/ \E i \in 1..MaxCalls : BodySettled(i)
  \/ \E i \in 1..MaxCalls : RimrafDone(i)
  \/ \E i \in 1..MaxCalls : TempDirSettled(i)

SpecTempDirs == InitTempDirs /\ [][NextTempDirs]_vars

\* C19: the directory of a call exists when and while its body runs, and is
\* gone once the promise of withTempDir has settled, however the body ended;
\* the promise settles with the body's value or error.
C19_TempDirRemovedOnEveryExit ==
  \A i \in 1..MaxCalls :
    LET c == tempDirs.calls[i]
    IN /\ c.pc = "body" => c.directory \in tempDirs.fs
       /\ c.pc # "mkdtemp" => c.existed
       /\ c.promise.state # "pending" =>
            /\ c.directory \notin tempDirs.fs
            /\ c.promise = BodyOutcome(c.kind, c.value)
       /\ \A j \in 1..MaxCalls :
            (i # j /\ c.pc \in {"body", "rimraf"} /\ tempDirs.calls[j].pc \in {"body", "rimraf"})
              => c.directory # tempDirs.calls[j].directory

C19_Witness_RemovedAfterThrowBesideRunning ==
  \E i, j \in 1..MaxCalls :
    /\ tempDirs.calls[i].kind = "throws"
    /\ tempDirs.calls[i].promise = RejectedWith("fail")
    /\ tempDirs.calls[j].pc = "body"
    /\ tempDirs.calls[j].kind = "rejects"
    /\ tempDirs.fs = {tempDirs.calls[j].directory}

-----------------------------------------------------------------------------
(* The list of files of a store: stores/index.js listFiles (zeus and s3)     *)

\* The store instances of the run, each with its own fileCache
StoreInstances == {"zeus", "s3"}

\* stores/index.js:111-143, 300-324  listFiles on a store: the cached promise
\* if there is one; otherwise the listing is requested and the new promise is
\* cached before it is returned. The call is recorded with its promise.
ListFilesCall_NoCache(store) ==
  [store EXCEPT !.promises = Append(@, Pending),
                !.fileCache = Len(store.promises) + 1,
                !.fetches = @ + 1,
                !.calls = Append(@, [promise |-> Len(store.promises) + 1, got |-> Pending])]

ListFilesCall(store) ==
  IF store.fileCache # 0
  THEN [store EXCEPT !.calls = Append(@, [promise |-> store.fileCache, got |-> Pending])]
  ELSE [store EXCEPT !.promises = Append(@, Pending),
                     !.fileCache = Len(store.promises) + 1,
                     !.fetches = @ + 1,
                     !.calls = Append(@, [promise |-> Len(store.promises) + 1, got |-> Pending])]

\* stores/index.js:52, 220  const downloadCache = {}; let fileCache = null
NewStore == [fileCache |-> 0, promises |-> <<>>, fetches |-> 0, calls |-> <<>>]

\* The remote listing is the number of artifacts uploaded for the commit
InitStores ==
  /\ EngineIdle
  /\ AuxIdle("stores")
  /\ stores = [remote |-> 0, instances |-> [s \in StoreInstances |-> NewStore]]

\* A target (or downloadAll) calls listFiles of the store
StoreListFiles(s) ==
  /\ Len(stores.instances[s].calls) < MaxListCalls
  /\ stores' = [stores EXCEPT !.instances[s] = ListFilesCall(@)]
  /\ UNCHANGED <<engineVars, release, targetRun, evaluation, publish, spawned, tempDirs, downloads, targetCalls, lookups, debounce, dispatcher, statusFetch, chain, resolution>>

\* The build server uploads another artifact for the commit
ArtifactUploaded ==
  /\ stores.remote < MaxFiles
  /\ stores' = [stores EXCEPT !.remote = @ + 1]
  /\ UNCHANGED <<engineVars, release, targetRun, evaluation, publish, spawned, tempDirs, downloads, targetCalls, lookups, debounce, dispatcher, statusFetch, chain, resolution>>

\* stores/index.js:121-139, 318-320  the request for the listing ends: the
\* promise resolves with the listing of that moment, or rejects
ListingAnswered(s, p, ok) ==
  /\ p \in 1..Len(stores.instances[s].promises)
  /\ stores.instances[s].promises[p] = Pending
  /\ stores' = [stores EXCEPT !.instances[s].promises[p] =
                  IF ok THEN [state |-> "fulfilled", value |-> stores.remote]
                  ELSE [state |-> "rejected", value |-> 0]]
  /\ UNCHANGED <<engineVars, release, targetRun, evaluation, publish, spawned, tempDirs, downloads, targetCalls, lookups, debounce, dispatcher, statusFetch, chain, resolution>>

\* The caller's await on the returned promise continues
CallerResumes(s, k) ==
  /\ k \in 1..Len(stores.instances[s].calls)
  /\ LET call == stores.instances[s].calls[k]
         promise == stores.instances[s].promises[call.promise]
     IN /\ call.got = Pending
        /\ promise # Pending
        /\ stores' = [stores EXCEPT !.instances[s].calls[k].got = promise]
  /\ UNCHANGED <<engineVars, release, targetRun, evaluation, publish, spawned, tempDirs, downloads, targetCalls, lookups, debounce, dispatcher, statusFetch, chain, resolution>>

NextStores ==
  \/ \E s \in StoreInstances : StoreListFiles(s)
  \/ ArtifactUploaded
  \/ \E s \in StoreInstances, p \in 1..MaxListCalls, ok \in BOOLEAN : ListingAnswered(s, p, ok)
  \/ \E s \in StoreInstances, k \in 1..MaxListCalls : CallerResumes(s, k)

SpecStores == InitStores /\ [][NextStores]_vars

\* C20: on every store instance the remote listing is requested at most once,
\* whatever the number and timing of the listFiles calls, and all calls yield
\* the same list (or the same error).
C20_ListingFetchedOnce ==
  \A s \in StoreInstances :
    LET store == stores.instances[s]
    IN /\ store.fetches <= 1
       /\ \A j, k \in 1..Len(store.calls) :
            /\ store.calls[j].promise = store.calls[k].promise
            /\ (store.calls[j].got # Pending /\ store.calls[k].got # Pending)
                 => store.calls[j].got = store.calls[k].got

C20_Witness_SameListAfterUpload ==
  \E s \in StoreInstances :
    LET store == stores.instances[s]
    IN /\ Len(store.calls) = 2
       /\ store.calls[1].got.state = "fulfilled"
       /\ store.calls[2].got.state = "fulfilled"
       /\ store.calls[1].got.value < stores.remote
       /\ \E t \in StoreInstances :
            /\ Len(stores.instances[t].calls) > 0
            /\ stores.instances[t].calls[1].got.state = "fulfilled"
            /\ stores.instances[t].calls[1].got.value # store.calls[1].got.value

-----------------------------------------------------------------------------
(* Downloads of a store: stores/index.js downloadFile, downloadFiles,        *)
(* downloadAll (zeus and s3)                                                 *)

\* The objects the remote store lists for the commit: `id` is what the object
\* is fetched by (the download_url of a Zeus artifact, the Key of an S3
\* object), `name` its file name (artifact.name, basename(Key))
RemoteEntries ==
  {[id |-> "k1", name |-> "a"], [id |-> "k2", name |-> "b"], [id |-> "k3", name |-> "a"]}

Listings ==
  {l \in SeqsUpTo(RemoteEntries, MaxFiles) : \A i, j \in 1..Len(l) : l[i] = l[j] => i = j}

\* stores/index.js:132-136 (zeus), 281-286 (s3)  the file object listFiles
\* makes of a remote entry: the Zeus one has name, type and url and no key
MapEntry(type, entry) ==
  IF type = "s3"
  THEN [key |-> entry.id, name |-> entry.name, url |-> "undefined"]
  ELSE [key |-> "undefined", name |-> entry.name, url |-> entry.id]

\* path.join(downloadDirectory, file.name)
Join(directory, name) == <<directory, name>>

\* stores/index.js:65-85, 233-257  downloadFile: the promise cached under
\* file.key, or a download of the file (by url in the Zeus store, by key in
\* the S3 store) to the download directory, its promise cached under file.key
DownloadFile_NoCache(store, file) ==
  [store EXCEPT
     !.started = Append(@, [key |-> file.key,
                            fetched |-> IF store.type = "s3" THEN file.key ELSE file.url,
                            localFile |-> Join("dir", file.name)]),
     !.promises = Append(@, Pending),
     !.downloadCache = [@ EXCEPT ![file.key] = Len(store.promises) + 1],
     !.returned = Len(store.promises) + 1]

DownloadFile(store, file) ==
  IF store.downloadCache[file.key] # 0
  THEN [store EXCEPT !.returned = store.downloadCache[file.key]]
  ELSE [store EXCEPT
          !.started = Append(@, [key |-> file.key,
                                 fetched |-> IF store.type = "s3" THEN file.key ELSE file.url,
                                 localFile |-> Join("dir", file.name)]),
          !.promises = Append(@, Pending),
          !.downloadCache = [@ EXCEPT ![file.key] = Len(store.promises) + 1],
          !.returned = Len(store.promises) + 1]

\* stores/index.js:99-101, 271-273  files.map(file => downloadFile(file)): the
\* calls in the order of the list, and the promises they returned
RECURSIVE DownloadFiles(_, _)
DownloadFiles(store, files) ==
  IF files = <<>> THEN [store EXCEPT !.batch = <<>>]
  ELSE LET before == DownloadFiles(store, SubSeq(files, 1, Len(files) - 1))
           after == DownloadFile(before, files[Len(files)])
       IN [after EXCEPT !.batch = Append(before.batch, after.returned)]

FileKeys == {"k1", "k2", "k3", "undefined"}

\* stores/index.js:50-52, 218-220  a store of either type with an empty
\* download cache; `files` is the list its listFiles resolves with
InitDownloads ==
  /\ EngineIdle
  /\ AuxIdle("downloads")
  /\ \E type \in StoreInstances, listing \in Listings :
       downloads = [type |-> type,
                    files |-> [i \in 1..Len(listing) |-> MapEntry(type, listing[i])],
                    downloadCache |-> [k \in FileKeys |-> 0],
                    promises |-> <<>>, started |-> <<>>, returned |-> 0,
                    calls |-> <<>>, batch |-> <<>>, all |-> "none"]

\* A target calls downloadFile with one of the listed files
DownloadFileCalled(i) ==
  /\ i \in 1..Len(downloads.files)
  /\ Len(downloads.calls) < MaxDownloadCalls
  /\ LET after == DownloadFile(downloads, downloads.files[i])
     IN downloads' = [after EXCEPT !.calls = Append(@, [file |-> i, promise |-> after.returned])]
  /\ UNCHANGED <<engineVars, release, targetRun, evaluation, publish, spawned, tempDirs, stores, targetCalls, lookups, debounce, dispatcher, statusFetch, chain, resolution>>

\* stores/index.js:155-158, 336-339  downloadAll, after the list is there:
\* downloadFiles(files)
DownloadAllCalled ==
  /\ downloads.all = "none"
  /\ downloads' = [DownloadFiles(downloads, downloads.files) EXCEPT !.all = "pending"]
  /\ UNCHANGED <<engineVars, release, targetRun, evaluation, publish, spawned, tempDirs, stores, targetCalls, lookups, debounce, dispatcher, statusFetch, chain, resolution>>

\* stores/index.js:78-82, 250-254  the download ends: the promise resolves
\* with the local path, or rejects
DownloadEnds(p, ok) ==
  /\ p \in 1..Len(downloads.promises)
  /\ downloads.promises[p].state = "pending"
  /\ downloads' = [downloads EXCEPT !.promises[p] =
       IF ok THEN Fulfilled(downloads.started[p].localFile) ELSE RejectedWith(<<"error">>)]
  /\ UNCHANGED <<engineVars, release, targetRun, evaluation, publish, spawned, tempDirs, stores, targetCalls, lookups, debounce, dispatcher, statusFetch, chain, resolution>>

\* stores/index.js:100, 272  Promise.all of the promises of downloadFiles
\* resolves once all of them have
DownloadAllResolves ==
  /\ downloads.all = "pending"
  /\ \A i \in 1..Len(downloads.batch) : downloads.promises[downloads.batch[i]].state = "fulfilled"
  /\ downloads' = [downloads EXCEPT !.all = "fulfilled"]
  /\ UNCHANGED <<engineVars, release, targetRun, evaluation, publish, spawned, tempDirs, stores, targetCalls, lookups, debounce, dispatcher, statusFetch, chain, resolution>>

NextDownloads ==
  \/ \E i \in 1..MaxFiles : DownloadFileCalled(i)
  \/ DownloadAllCalled
  \/ \E p \in 1..(MaxFiles + MaxDownloadCalls), ok \in BOOLEAN : DownloadEnds(p, ok)
  \/ DownloadAllResolves

SpecDownloads == InitDownloads /\ [][NextDownloads]_vars

\* C21: at most one download is started per file key of a store; every call
\* for a key returns the promise of that one download, while it is in flight
\* and after it has completed.
C21_OneDownloadPerKey ==
  /\ \A i, j \in 1..Len(downloads.started) :
       downloads.started[i].key = downloads.started[j].key => i = j
  /\ \A c, d \in 1..Len(downloads.calls) :
       downloads.files[downloads.calls[c].file].key = downloads.files[downloads.calls[d].file].key
         => downloads.calls[c].promise = downloads.calls[d].promise
  /\ \A c \in 1..Len(downloads.calls) :
       downloads.started[downloads.calls[c].promise].key = downloads.files[downloads.calls[c].file].key

C21_Witness_SharedInFlightAndCompleted ==
  /\ downloads.type = "s3"
  /\ Len(downloads.calls) = 2
  /\ downloads.calls[1].file = downloads.calls[2].file
  /\ Len(downloads.started) = 1
  /\ downloads.promises[1].state = "fulfilled"

\* C22: the paths of downloadFiles and downloadAll are, in the order of the
\* listed files, the download directory joined with each file's name, and
\* every listed file has a download of its own.
C22_OnePathAndDownloadPerFile ==
  downloads.all # "none" =>
    /\ Len(downloads.batch) = Len(downloads.files)
    /\ \A i \in 1..Len(downloads.files) :
         /\ downloads.started[downloads.batch[i]].localFile = Join("dir", downloads.files[i].name)
         /\ downloads.started[downloads.batch[i]].fetched \in
              {downloads.files[i].key, downloads.files[i].url} \ {"undefined"}
    /\ \A i, j \in 1..Len(downloads.files) :
         downloads.batch[i] = downloads.batch[j] => i = j

-----------------------------------------------------------------------------
(* One target: targets/index.js runTarget, utils.js cloneContext             *)

\* A property that is not there
Missing == "undefined"

\* Targets of release.yml as JavaScript values: null, a string, or an object
\* with or without a name and with further options
TargetValues ==
  {[type |-> "null", name |-> Missing, options |-> Missing]} \cup
  [type : {"string"}, name : {"", "npm", "bogus"}, options : {Missing}] \cup
  [type : {"object"}, name : {Missing, "npm", "bogus"}, options : {Missing, "access"}]

\* part_002:23  typeof target === 'string' ? { name: target } : target
ConfigOf(target) == [name |-> target.name, options |-> target.options]

\* part_002:24  tryRequire(`./${config.name}`, require) in lib/targets: a
\* driver, nothing, or for "./" and "./index" the module of runTarget itself
RequireTarget(name) ==
  CASE name \in {"npm", "github"} -> "driver"
    [] name \in {"", "index"} -> "runTarget"
    [] OTHER -> "null"

\* utils.js:106-108  cloneContext: Object.assign(new context.constructor(),
\* context, params) allocates an object and returns its reference
CloneContext_InPlace(heap, ref, params) ==
  [heap |-> [heap EXCEPT ![ref] = [@ EXCEPT !.config = params.config, !.tag = params.tag,
                                            !.logger = params.logger, !.store = params.store]],
   ref |-> ref]

CloneContext(heap, ref, params) ==
  [heap |-> Append(heap, [heap[ref] EXCEPT !.config = params.config, !.tag = params.tag,
                                           !.logger = params.logger, !.store = params.store]),
   ref |-> Len(heap) + 1]

NoConfigYet == [name |-> Missing, options |-> Missing]

\* The context performRelease passes to runTarget; it has no property `name`
CallerContext ==
  [payload |-> "payload", name |-> Missing, config |-> NoConfigYet, tag |-> Missing,
   logger |-> Missing, store |-> Missing]

ErrorOf(message, name) == [message |-> message, name |-> name]
NoErrorYet == ErrorOf("none", Missing)

\* part_002:22-36  runTarget up to the call of the target function. `required`
\* are the module names tried, `driver` the references the driver was called
\* with. Called with the name "" or "index" the target function is runTarget
\* itself: it runs with the cloned context as its target.
RunTargetSync(heap, target, context) ==
  IF target.type = "null"
  THEN [heap |-> heap, required |-> <<>>, driver |-> <<>>,
        error |-> ErrorOf("TypeError: Cannot read property 'name' of null", Missing)]
  ELSE
    LET config == ConfigOf(target)
        targetFn == RequireTarget(config.name)
        cloned == CloneContext(heap, context,
                    [config |-> config, tag |-> "tag", logger |-> "logger", store |-> "store"])
    IN CASE targetFn = "null" ->
              [heap |-> heap, required |-> <<config.name>>, driver |-> <<>>,
               error |-> ErrorOf("Skipping unknown deploy target", config.name)]
         [] targetFn = "driver" ->
              [heap |-> cloned.heap, required |-> <<config.name>>, driver |-> <<cloned.ref>>,
               error |-> NoErrorYet]
         [] OTHER ->
              [heap |-> cloned.heap,
               required |-> <<config.name, cloned.heap[cloned.ref].name>>,
               driver |-> <<>>,
               error |-> ErrorOf("Skipping unknown deploy target",
                                 cloned.heap[cloned.ref].name)]

\* index.js:282-285  performRelease runs the targets on one context
InitTargetCalls ==
  /\ EngineIdle
  /\ AuxIdle("targetCalls")
  /\ \E targets \in SeqsUpTo(TargetValues, MaxTargets) :
       /\ targets # <<>>
       /\ targetCalls = [heap |-> <<CallerContext>>,
                         calls |-> [i \in 1..Len(targets) |->
                           [target |-> targets[i], state |-> "new", required |-> <<>>,
                            driver |-> <<>>, error |-> NoErrorYet]]]

\* part_002:22-36  runTarget is called: it throws (its promise rejects) or
\* awaits the target function
RunTargetCalled(i) ==
  /\ i \in 1..Len(targetCalls.calls)
  /\ targetCalls.calls[i].state = "new"
  /\ LET r == RunTargetSync(targetCalls.heap, targetCalls.calls[i].target, 1)
     IN targetCalls' = [heap |-> r.heap,
                        calls |-> [targetCalls.calls EXCEPT ![i] =
                          [@ EXCEPT !.state = IF r.error = NoErrorYet THEN "pending" ELSE "rejected",
                                    !.required = r.required, !.driver = r.driver,
                                    !.error = r.error]]]
  /\ UNCHANGED <<engineVars, release, targetRun, evaluation, publish, spawned, tempDirs, stores, downloads, lookups, debounce, dispatcher, statusFetch, chain, resolution>>

\* part_002:36  the promise of the target function settles, and with it the
\* promise of runTarget
TargetFnSettles(i, ok) ==
  /\ i \in 1..Len(targetCalls.calls)
  /\ targetCalls.calls[i].state = "pending"
  /\ targetCalls' = [targetCalls EXCEPT
       !.calls[i].state = IF ok THEN "fulfilled" ELSE "rejected",
       !.calls[i].error = IF ok THEN NoErrorYet ELSE ErrorOf("driver failed", Missing)]
  /\ UNCHANGED <<engineVars, release, targetRun, evaluation, publish, spawned, tempDirs, stores, downloads, lookups, debounce, dispatcher, statusFetch, chain, resolution>>

NextTargetCalls ==
  \/ \E i \in 1..MaxTargets : RunTargetCalled(i)
  \/ \E i \in 1..MaxTargets, ok \in BOOLEAN : TargetFnSettles(i, ok)

SpecTargetCalls == InitTargetCalls /\ [][NextTargetCalls]_vars

\* The target spec is null, the empty string, or an object without a name
MissingSpec(target) ==
  \/ target.type = "null"
  \/ target.name \in {"", Missing}

\* C23: runTarget of a spec that is null, the empty string or an object
\* without a name rejects with 'Missing target specification' and tries to
\* load no driver.
C23_MissingTargetSpecRejected ==
  \A i \in 1..Len(targetCalls.calls) :
    LET c == targetCalls.calls[i]
    IN (MissingSpec(c.target) /\ c.state # "new") =>
         /\ c.state = "rejected"
         /\ c.error = ErrorOf("Missing target specification", Missing)
         /\ c.required = <<>>

\* C24: runTarget of a spec whose name has no driver rejects with 'Unknown
\* deploy target "<name>"' and calls no target function.
C24_UnknownTargetRejected ==
  \A i \in 1..Len(targetCalls.calls) :
    LET c == targetCalls.calls[i]
    IN (~ MissingSpec(c.target) /\ RequireTarget(c.target.name) = "null" /\ c.state # "new") =>
         /\ c.state = "rejected"
         /\ c.error = ErrorOf("Unknown deploy target", c.target.name)
         /\ c.driver = <<>>

\* C30: runTarget of a spec with a driver calls the driver once, with a new
\* object that carries the config of the spec, the tag, the logger and the
\* store beside what the caller's context holds; the caller's context is as it
\* was, so no target sees the config of another.
C30_DriverGetsFreshContext ==
  /\ targetCalls.heap[1] = CallerContext
  /\ \A i \in 1..Len(targetCalls.calls) :
       LET c == targetCalls.calls[i]
       IN (RequireTarget(c.target.name) = "driver" /\ c.target.type # "null" /\ c.state # "new") =>
            /\ Len(c.driver) = 1
            /\ c.driver[1] # 1
            /\ targetCalls.heap[c.driver[1]] =
                 [CallerContext EXCEPT !.config = [name |-> c.target.name, options |-> c.target.options],
                                       !.tag = "tag", !.logger = "logger", !.store = "store"]
            /\ \A j \in 1..Len(targetCalls.calls) :
                 (j # i /\ targetCalls.calls[j].driver # <<>>) =>
                   targetCalls.calls[j].driver[1] # c.driver[1]

C30_Witness_TwoTargetsTwoConfigs ==
  /\ Len(targetCalls.calls) >= 2
  /\ targetCalls.calls[1].state = "pending"
  /\ targetCalls.calls[2].state = "fulfilled"
  /\ targetCalls.calls[1].target.type = "object"
  /\ targetCalls.calls[1].target.options = "access"
  /\ targetCalls.calls[2].target.type = "string"

-----------------------------------------------------------------------------
(* Lookups on the hosting API: utils.js getFile, index.js getReference,      *)
(* targets/github.js getOrCreateRelease                                      *)

\* Status codes of a response: found, not found, and two other failures
ResponseCodes == {"200", "404", "403", "500"}

LookupKinds == {"getFile", "getReference", "getOrCreateRelease"}

\* utils.js:71-80  getFile after repos.getContent: the content, null on a 404,
\* or the error
GetFileResult_Rethrow(code) ==
  IF code = "200" THEN Fulfilled("content") ELSE RejectedWith(code)

GetFileResult(code) ==
  CASE code = "200" -> Fulfilled("content")
    [] code = "404" -> Fulfilled("null")
    [] OTHER -> RejectedWith(code)

\* index.js:91-101  getReference after gitdata.getReference: the object; there
\* is no catch, every error rejects
GetReferenceResult(code) ==
  IF code = "200" THEN Fulfilled("object") ELSE RejectedWith(code)

\* part_005:24-56  getOrCreateRelease after the response of the request it
\* awaits at `stage`: the next stage, and the result once there is one
GetOrCreateReleaseStep(stage, code, perform) ==
  CASE stage = "getReleaseByTag" ->
         (CASE code = "200" -> [stage |-> "done", result |-> Fulfilled("release")]
            [] code = "404" -> [stage |-> "getContent", result |-> Pending]
            [] OTHER -> [stage |-> "done", result |-> RejectedWith(code)])
    [] stage = "getContent" ->
         (IF GetFileResult(code).state = "rejected"
          THEN [stage |-> "done", result |-> GetFileResult(code)]
          ELSE IF ~ perform
          THEN [stage |-> "done", result |-> Fulfilled("stub")]
          ELSE [stage |-> "createRelease", result |-> Pending])
    [] OTHER ->
         [stage |-> "done",
          result |-> IF code = "200" THEN Fulfilled("created") ELSE RejectedWith(code)]

\* The request a lookup starts with
FirstStage(kind) ==
  CASE kind = "getFile" -> "getContent"
    [] kind = "getReference" -> "getReference"
    [] OTHER -> "getReleaseByTag"

InitLookups ==
  /\ EngineIdle
  /\ AuxIdle("lookups")
  /\ \E calls \in SeqsUpTo([kind : LookupKinds, perform : BOOLEAN], MaxLookups) :
       /\ calls # <<>>
       /\ lookups = [i \in 1..Len(calls) |->
            [kind |-> calls[i].kind, perform |-> calls[i].perform,
             stage |-> FirstStage(calls[i].kind), codes |-> <<>>, result |-> Pending]]

\* The hosting API answers the request that call i awaits
LookupAnswered(i, code) ==
  /\ i \in 1..Len(lookups)
  /\ lookups[i].stage # "done"
  /\ LET c == lookups[i]
         next == CASE c.kind = "getFile" -> [stage |-> "done", result |-> GetFileResult(code)]
                   [] c.kind = "getReference" ->
                        [stage |-> "done", result |-> GetReferenceResult(code)]
                   [] OTHER -> GetOrCreateReleaseStep(c.stage, code, c.perform)
     IN lookups' = [lookups EXCEPT ![i] = [c EXCEPT !.stage = next.stage,
                                                    !.result = next.result,
                                                    !.codes = Append(@, code)]]
  /\ UNCHANGED <<engineVars, release, targetRun, evaluation, publish, spawned, tempDirs, stores, downloads, targetCalls, debounce, dispatcher, statusFetch, chain, resolution>>

NextLookups ==
  \E i \in 1..MaxLookups, code \in ResponseCodes : LookupAnswered(i, code)

SpecLookups == InitLookups /\ [][NextLookups]_vars

\* The response to the lookup itself (the first request of the call)
Looked(c) == c.codes # <<>>

\* C26, as claimed: a 404 to a content, reference or release-by-tag lookup is
\* an absent result and never the error of the call; another error code is.
C26_NotFoundNeverPropagated ==
  \A i \in 1..Len(lookups) :
    LET c == lookups[i]
    IN Looked(c) =>
         /\ (c.codes[1] = "404" /\ Len(c.codes) = 1) => c.result.state # "rejected"
         /\ c.codes[1] \in {"403", "500"} => c.result = RejectedWith(c.codes[1])

\* C26, amended: a 404 to a content lookup (getFile) resolves to null and a
\* 404 to the release-by-tag lookup of getOrCreateRelease makes it go on to
\* create the release; a 404 to the reference lookup (getReference) rejects
\* like every other error; every other error code rejects all three.
C26_NotFoundNormalizedForContentAndRelease ==
  \A i \in 1..Len(lookups) :
    LET c == lookups[i]
    IN Looked(c) =>
         /\ c.codes[1] \in {"403", "500"} => c.result = RejectedWith(c.codes[1])
         /\ (c.kind = "getFile" /\ c.codes[1] = "404") => c.result = Fulfilled("null")
         /\ (c.kind = "getReference" /\ c.codes[1] = "404") => c.result = RejectedWith("404")
         /\ (c.kind = "getOrCreateRelease" /\ c.codes[1] = "404") =>
              /\ Len(c.codes) = 1 => (c.stage = "getContent" /\ c.result = Pending)
              /\ (Len(c.codes) = 2 /\ c.codes[2] = "404") =>
                   IF c.perform THEN c.stage = "createRelease" /\ c.result = Pending
                   ELSE c.result = Fulfilled("stub")
              /\ (Len(c.codes) = 2 /\ c.codes[2] \in {"403", "500"}) =>
                   c.result = RejectedWith(c.codes[2])

C26_Witness_ReleaseCreatedBesideRejectedReference ==
  \E i, j \in 1..Len(lookups) :
    /\ lookups[i].kind = "getOrCreateRelease"
    /\ lookups[i].codes = <<"404", "404", "200">>
    /\ lookups[i].result = Fulfilled("created")
    /\ lookups[j].kind = "getReference"
    /\ lookups[j].result = RejectedWith("404")

(***************************************************************************)
(* The debounce delay: RELEASE_TIMEOUT as the module reads it from the     *)
(* environment, and the setTimeout call of processTag that uses it.        *)
(***************************************************************************)

\* The value that is not a number
NaN == 0 - 1

\* JavaScript values of this section
Num(n) == [type |-> "number", n |-> n]
Str(s) == [type |-> "string", s |-> s]
Undef == [type |-> "undefined"]

\* process.env.RELEASE_TIMEOUT: not set, or a string
Settings == {Undef} \cup {Str(s) : s \in {"", "0", "2", "30", "abc"}}

\* const RELEASE_TIMEOUT = process.env.RELEASE_TIMEOUT === '' ? 60 : ...
ReleaseTimeoutOf(setting) ==
  IF setting = Str("") THEN Num(60) ELSE setting

\* The numeric value of a string, for the strings of Settings
StringToNumber(s) ==
  CASE s \in {"", "0"} -> 0
    [] s = "2" -> 2
    [] s = "30" -> 30
    [] OTHER -> NaN

\* The conversion that the operator * applies to its operand
ToNumber(v) ==
  CASE v.type = "number" -> v.n
    [] v.type = "string" -> StringToNumber(v.s)
    [] OTHER -> NaN

\* RELEASE_TIMEOUT * 1000
Milliseconds(timeout) ==
  IF ToNumber(timeout) = NaN THEN NaN ELSE ToNumber(timeout) * 1000

\* The duration a timer runs with: anything that is not between 1 and
\* 2^31 - 1 milliseconds, NaN included, runs as 1 millisecond
TimerDuration(ms) ==
  IF ms = NaN \/ ms < 1 \/ ms > 2^30 + (2^30 - 1) THEN 1 ELSE ms

\* The instants (in milliseconds) at which the clock is looked at
Instants == {0, 1, 2 * 1000, 30 * 1000, 60 * 1000}

InitDebounce ==
  /\ EngineIdle
  /\ AuxIdle("debounce")
  /\ \E setting \in Settings :
       debounce = [env |-> setting, timeout |-> ReleaseTimeoutOf(setting),
                   now |-> 0, timers |-> <<>>]

\* processTag reaches "Scheduling release of ..." and calls setTimeout
ScheduleRelease ==
  /\ Len(debounce.timers) < MaxSchedules
  /\ LET ms == Milliseconds(debounce.timeout)
     IN debounce' = [debounce EXCEPT !.timers =
          Append(@, [set |-> debounce.now, ms |-> ms,
                     duration |-> TimerDuration(ms), fired |-> FALSE])]
  /\ UNCHANGED <<engineVars, release, targetRun, evaluation, publish, spawned, tempDirs, stores, downloads, targetCalls, lookups, dispatcher, statusFetch, chain, resolution>>

\* Time passes
Elapse(to) ==
  /\ to > debounce.now
  /\ debounce' = [debounce EXCEPT !.now = to]
  /\ UNCHANGED <<engineVars, release, targetRun, evaluation, publish, spawned, tempDirs, stores, downloads, targetCalls, lookups, dispatcher, statusFetch, chain, resolution>>

\* The callback of timer i runs: its duration has passed
TimeoutCallback(i) ==
  /\ i \in 1..Len(debounce.timers)
  /\ ~ debounce.timers[i].fired
  /\ debounce.now >= debounce.timers[i].set + debounce.timers[i].duration
  /\ debounce' = [debounce EXCEPT !.timers[i].fired = TRUE]
  /\ UNCHANGED <<engineVars, release, targetRun, evaluation, publish, spawned, tempDirs, stores, downloads, targetCalls, lookups, dispatcher, statusFetch, chain, resolution>>

NextDebounce ==
  \/ ScheduleRelease
  \/ \E to \in Instants : Elapse(to)
  \/ \E i \in 1..MaxSchedules : TimeoutCallback(i)

SpecDebounce == InitDebounce /\ [][NextDebounce]_vars

\* The delay in milliseconds that the documentation promises for a setting
PromisedDelay(setting) ==
  IF setting \in {Undef, Str("")} THEN 60 * 1000
  ELSE StringToNumber(setting.s) * 1000

\* The setting names a number of seconds, or is absent or empty
NumericOrDefault(setting) ==
  setting \in {Undef, Str("")} \/ StringToNumber(setting.s) # NaN

\* C28: the delay handed to setTimeout is 60 seconds when RELEASE_TIMEOUT is
\* not set or is the empty string, and the given number of seconds otherwise;
\* no callback runs before that delay has passed.
C28_DelayIsSettingOrSixty ==
  NumericOrDefault(debounce.env) =>
    \A i \in 1..Len(debounce.timers) :
      LET t == debounce.timers[i]
      IN /\ t.ms = PromisedDelay(debounce.env)
         /\ t.fired => debounce.now >= t.set + PromisedDelay(debounce.env)

\* With RELEASE_TIMEOUT set (to the empty string or to a number), the delay is
\* the promised one
C28_DelayWhenSet ==
  (debounce.env # Undef /\ NumericOrDefault(debounce.env)) =>
    \A i \in 1..Len(debounce.timers) :
      LET t == debounce.timers[i]
      IN /\ t.ms = PromisedDelay(debounce.env)
         /\ t.fired => debounce.now >= t.set + PromisedDelay(debounce.env)

C28_Witness_EmptySettingWaitsSixty ==
  /\ debounce.env = Str("")
  /\ \E i \in 1..Len(debounce.timers) :
       debounce.timers[i].fired /\ debounce.timers[i].ms = 60 * 1000

C28_Witness_UnsetFiresAtOnce ==
  /\ debounce.env = Undef
  /\ \E i \in 1..Len(debounce.timers) :
       debounce.timers[i].fired /\ debounce.now = debounce.timers[i].set + 1

(***************************************************************************)
(* Failures of a dispatch: the timer callback of processTag, performRelease, *)
(* withTempDir and createStore, with every step that can fail.             *)
(***************************************************************************)

\* `store` of release.yml: a store driver, a name without a module, nothing,
\* the name of the index module, and a path to a module that is no store
StoreSettings == {"zeus", "bogus", "", "index", "../targets/npm"}

\* stores/index.js:18  tryRequire(`./${type}`, require) in lib/stores: a store
\* driver, a target driver of lib/targets, or null
RequireStore(type) ==
  CASE type = "zeus" -> "store"
    [] type = "../targets/npm" -> "target"
    [] OTHER -> "null"

\* stores/index.js:13-24  createStore: throws for a type that is empty or
\* "index" and for a type without a module; otherwise returns what the module's
\* function returns. A target driver is an async function that reads
\* `store.listFiles` of its first argument: called with the commit it returns
\* a rejected promise.
CreateStoreResult(type) ==
  IF type = "" \/ type = "index" THEN "throws"
  ELSE CASE RequireStore(type) = "null" -> "throws"
         [] RequireStore(type) = "store" -> "store"
         [] OTHER -> "rejectedPromise"

\* What runTarget does for the one target of the release
TargetOutcomes == {"resolves", "rejects"}

NewRun(store) ==
  [store |-> store, stage |-> "scheduled", failures |-> 0, logged |-> 0,
   unhandled |-> "none"]

InitDispatcher ==
  /\ EngineIdle
  /\ AuxIdle("dispatcher")
  /\ dispatcher = [alive |-> TRUE, runs |-> <<>>]

\* index.js:358-362  an event is processed and processTag schedules a release
EventSchedules(store) ==
  /\ dispatcher.alive
  /\ Len(dispatcher.runs) < MaxSchedules
  /\ dispatcher' = [dispatcher EXCEPT !.runs = Append(@, NewRun(store))]
  /\ UNCHANGED <<engineVars, release, targetRun, evaluation, publish, spawned, tempDirs, stores, downloads, targetCalls, lookups, debounce, statusFetch, chain, resolution>>

\* index.js:359-361, 269-273, files.js:46  the timer callback calls
\* performRelease, which runs up to `await mkdtemp`
CallbackRuns(i) ==
  /\ dispatcher.alive
  /\ i \in 1..Len(dispatcher.runs)
  /\ dispatcher.runs[i].stage = "scheduled"
  /\ dispatcher' = [dispatcher EXCEPT !.runs[i].stage = "mkdtemp"]
  /\ UNCHANGED <<engineVars, release, targetRun, evaluation, publish, spawned, tempDirs, stores, downloads, targetCalls, lookups, debounce, statusFetch, chain, resolution>>

\* files.js:46, index.js:361  mkdtemp fails: withTempDir and performRelease
\* reject, the catch of the callback logs the error
MkdtempFails(i) ==
  /\ dispatcher.alive
  /\ i \in 1..Len(dispatcher.runs)
  /\ dispatcher.runs[i].stage = "mkdtemp"
  /\ dispatcher' = [dispatcher EXCEPT !.runs[i].stage = "done",
                                      !.runs[i].failures = @ + 1,
                                      !.runs[i].logged = @ + 1]
  /\ UNCHANGED <<engineVars, release, targetRun, evaluation, publish, spawned, tempDirs, stores, downloads, targetCalls, lookups, debounce, statusFetch, chain, resolution>>

\* files.js:47-48, index.js:274-291  the directory exists: the body creates the
\* store and launches the targets. A throw of createStore is caught and logged
\* by the body; a rejected promise returned as the store is passed on to the
\* targets and nothing handles its rejection.
BodyRuns(i) ==
  /\ dispatcher.alive
  /\ i \in 1..Len(dispatcher.runs)
  /\ dispatcher.runs[i].stage = "mkdtemp"
  /\ LET result == CreateStoreResult(dispatcher.runs[i].store)
     IN dispatcher' =
          CASE result = "throws" ->
                 [dispatcher EXCEPT !.runs[i].stage = "rimraf",
                                    !.runs[i].failures = @ + 1,
                                    !.runs[i].logged = @ + 1]
            [] result = "store" ->
                 [dispatcher EXCEPT !.runs[i].stage = "targets"]
            [] OTHER ->
                 [dispatcher EXCEPT !.runs[i].stage = "targets",
                                    !.runs[i].failures = @ + 1,
                                    !.runs[i].unhandled = "pending"]
  /\ UNCHANGED <<engineVars, release, targetRun, evaluation, publish, spawned, tempDirs, stores, downloads, targetCalls, lookups, debounce, statusFetch, chain, resolution>>

\* index.js:282-288  the promise of runTarget settles; its catch logs a
\* rejection. A target that gets a promise for a store fails on its first use.
TargetDone(i, outcome) ==
  /\ dispatcher.alive
  /\ i \in 1..Len(dispatcher.runs)
  /\ dispatcher.runs[i].stage = "targets"
  /\ CreateStoreResult(dispatcher.runs[i].store) = "rejectedPromise" => outcome = "rejects"
  /\ dispatcher' =
       IF outcome = "rejects"
       THEN [dispatcher EXCEPT !.runs[i].stage = "rimraf",
                               !.runs[i].failures = @ + 1,
                               !.runs[i].logged = @ + 1]
       ELSE [dispatcher EXCEPT !.runs[i].stage = "rimraf"]
  /\ UNCHANGED <<engineVars, release, targetRun, evaluation, publish, spawned, tempDirs, stores, downloads, targetCalls, lookups, debounce, statusFetch, chain, resolution>>

\* files.js:49-51, index.js:361  rimraf settles; if it fails withTempDir and
\* performRelease reject and the catch of the callback logs the error
RimrafSettles(i, removed) ==
  /\ dispatcher.alive
  /\ i \in 1..Len(dispatcher.runs)
  /\ dispatcher.runs[i].stage = "rimraf"
  /\ dispatcher' =
       IF removed THEN [dispatcher EXCEPT !.runs[i].stage = "done"]
       ELSE [dispatcher EXCEPT !.runs[i].stage = "done",
                               !.runs[i].failures = @ + 1,
                               !.runs[i].logged = @ + 1]
  /\ UNCHANGED <<engineVars, release, targetRun, evaluation, publish, spawned, tempDirs, stores, downloads, targetCalls, lookups, debounce, statusFetch, chain, resolution>>

\* The runtime finds a rejected promise that nothing handles: it reports it
\* and goes on, or it ends the process, depending on the runtime and its mode
UnhandledRejection(i, ends) ==
  /\ dispatcher.alive
  /\ i \in 1..Len(dispatcher.runs)
  /\ dispatcher.runs[i].unhandled = "pending"
  /\ dispatcher' = [dispatcher EXCEPT !.runs[i].unhandled = "reported",
                                      !.alive = ~ ends]
  /\ UNCHANGED <<engineVars, release, targetRun, evaluation, publish, spawned, tempDirs, stores, downloads, targetCalls, lookups, debounce, statusFetch, chain, resolution>>

NextDispatcher ==
  \/ \E store \in StoreSettings : EventSchedules(store)
  \/ \E i \in 1..MaxSchedules : CallbackRuns(i)
  \/ \E i \in 1..MaxSchedules : MkdtempFails(i)
  \/ \E i \in 1..MaxSchedules : BodyRuns(i)
  \/ \E i \in 1..MaxSchedules, outcome \in TargetOutcomes : TargetDone(i, outcome)
  \/ \E i \in 1..MaxSchedules, removed \in BOOLEAN : RimrafSettles(i, removed)
  \/ \E i \in 1..MaxSchedules, ends \in BOOLEAN : UnhandledRejection(i, ends)

SpecDispatcher == InitDispatcher /\ [][NextDispatcher]_vars

\* Every failure of run r so far has been logged by a catch of the dispatch,
\* and none is left to the runtime
AllCaught(r) == r.logged = r.failures /\ r.unhandled = "none"

\* C29: every failure during a dispatch (workspace creation, instantiation of
\* the store, a target, removal of the workspace) is caught and logged by the
\* dispatch itself, none is left unhandled, and the process stays able to
\* process events and schedule releases.
C29_DispatchFailuresCaught ==
  /\ dispatcher.alive
  /\ \A i \in 1..Len(dispatcher.runs) : AllCaught(dispatcher.runs[i])

\* The same, for store settings that name a store driver, no module at all,
\* nothing, or the index module
C29_CaughtWhenStoreThrows ==
  (\A i \in 1..Len(dispatcher.runs) :
     CreateStoreResult(dispatcher.runs[i].store) # "rejectedPromise") =>
    /\ dispatcher.alive
    /\ \A i \in 1..Len(dispatcher.runs) : AllCaught(dispatcher.runs[i])

C29_Witness_ScheduledAfterFailedDispatch ==
  /\ Len(dispatcher.runs) = 2
  /\ dispatcher.runs[1].stage = "done"
  /\ dispatcher.runs[1].store = "bogus"
  /\ dispatcher.runs[1].failures = 2
  /\ dispatcher.runs[2].stage = "scheduled"

C29_Witness_ProcessEndedByStorePromise ==
  /\ ~ dispatcher.alive
  /\ \E i \in 1..Len(dispatcher.runs) : dispatcher.runs[i].store = "../targets/npm"

(***************************************************************************)
(* getStatuses on a commit whose statuses come in pages, and the status    *)
(* set processTag evaluates from its result.                               *)
(***************************************************************************)

\* Page n of the statuses of the commit, PerPage statuses each
Page(all, n) ==
  SubSeq(all, (n - 1) * PerPage + 1, Min(n * PerPage, Len(all)))

HasNextPage(all, n) == Len(all) > n * PerPage

\* release.yml of this section: nothing ignored, or the checks starting with "co"
FetchConfigs ==
  {c \in EvalConfigs : c.targets = <<"npm">> /\ c.ignoredChecks \in {{}, {<<"c", "o">>}}}

InitStatusFetch ==
  /\ EngineIdle
  /\ AuxIdle("statusFetch")
  /\ \E all \in SeqsUpTo(StatusValues, MaxStatuses), config \in FetchConfigs :
       statusFetch = [all |-> all, config |-> config, pc |-> "first", page |-> 0,
                      response |-> <<>>, pages |-> <<>>, statuses |-> <<>>,
                      latest |-> {}, outcome |-> "none"]

\* index.js:214-216  the hosting provider answers repos.getStatuses: the first page
FirstPageAnswered ==
  /\ statusFetch.pc = "first"
  /\ statusFetch' = [statusFetch EXCEPT !.pc = "firstReply", !.page = 1,
                                        !.response = Page(statusFetch.all, 1)]
  /\ UNCHANGED <<engineVars, release, targetRun, evaluation, publish, spawned, tempDirs, stores, downloads, targetCalls, lookups, debounce, dispatcher, chain, resolution>>

\* index.js:322, 332-355  processTag goes on with the statuses getStatuses returned
Evaluated(f, statuses) ==
  LET latest == FilterLatestStatuses(statuses, f.config)
  IN [f EXCEPT !.pc = "done", !.statuses = statuses, !.latest = latest,
               !.outcome = Decide(latest, f.config)]

\* index.js:217-226  `await repos.getStatuses` returns: a first page sorted
\* newest first is the result; otherwise paginate starts from the response
FirstPageDelivered ==
  /\ statusFetch.pc = "firstReply"
  /\ LET data == statusFetch.response
     IN statusFetch' =
          IF IsSorted([i \in 1..Len(data) |-> data[i].updated_at], TRUE)
          THEN Evaluated(statusFetch, GetStatuses(data, data))
          ELSE [statusFetch EXCEPT !.pc = "paginate", !.pages = data]
  /\ UNCHANGED <<engineVars, release, targetRun, evaluation, publish, spawned, tempDirs, stores, downloads, targetCalls, lookups, debounce, dispatcher, chain, resolution>>

\* index.js:224-227  paginate requests the next page, while there is one
NextPageAnswered ==
  /\ statusFetch.pc = "paginate"
  /\ HasNextPage(statusFetch.all, statusFetch.page)
  /\ statusFetch' = [statusFetch EXCEPT
       !.page = @ + 1,
       !.pages = @ \o Page(statusFetch.all, statusFetch.page + 1)]
  /\ UNCHANGED <<engineVars, release, targetRun, evaluation, publish, spawned, tempDirs, stores, downloads, targetCalls, lookups, debounce, dispatcher, chain, resolution>>

\* index.js:224-228  `await paginate` returns all pages: sorted by updated_at
PaginateDelivered ==
  /\ statusFetch.pc = "paginate"
  /\ ~ HasNextPage(statusFetch.all, statusFetch.page)
  /\ statusFetch' =
       Evaluated(statusFetch, GetStatuses(statusFetch.response, statusFetch.pages))
  /\ UNCHANGED <<engineVars, release, targetRun, evaluation, publish, spawned, tempDirs, stores, downloads, targetCalls, lookups, debounce, dispatcher, chain, resolution>>

NextStatusFetch ==
  \/ FirstPageAnswered
  \/ FirstPageDelivered
  \/ NextPageAnswered
  \/ PaginateDelivered

SpecStatusFetch == InitStatusFetch /\ [][NextStatusFetch]_vars

\* The statuses of the commit, as a set
AllOfCommit == {statusFetch.all[i] : i \in 1..Len(statusFetch.all)}

\* The evaluated set has, for every context of `statuses` that is not ignored,
\* a status of that context that none of `statuses` is later than
LatestOfEach(statuses) ==
  \A s \in statuses :
    ~ Ignored(s.context, statusFetch.config) =>
      \E e \in statusFetch.latest :
        /\ e.context = s.context
        /\ e \in statuses
        /\ \A o \in statuses : o.context = e.context => o.updated_at <= e.updated_at

\* C31: the status set processTag evaluates holds, for every context of the
\* commit that is not ignored, the latest status of that context among all
\* statuses of the commit, on however many pages they come.
C31_LatestOfAllPages ==
  statusFetch.pc = "done" => LatestOfEach(AllOfCommit)

\* The same for a commit whose statuses fit on one page, or whose first page
\* is not sorted newest first
C31_LatestWhenAllFetched ==
  (statusFetch.pc = "done" /\ statusFetch.page * PerPage >= Len(statusFetch.all)) =>
    LatestOfEach(AllOfCommit)

C31_Witness_UnsortedPagesAllFetched ==
  /\ statusFetch.pc = "done"
  /\ statusFetch.page = 2
  /\ \E s \in AllOfCommit : s \notin {statusFetch.response[i] : i \in 1..Len(statusFetch.response)}

C31_Witness_FailureOnSecondPageScheduled ==
  /\ statusFetch.pc = "done"
  /\ statusFetch.outcome = "schedule"
  /\ \E s \in AllOfCommit :
       /\ s.state = "failure"
       /\ ~ Ignored(s.context, statusFetch.config)
       /\ \A o \in AllOfCommit : o.context = s.context => o = s

(***************************************************************************)
(* The scheduler while a release is in progress                            *)
(***************************************************************************)

(* The events of one tag: the first arrives at any time, every later one    *)
(* while a release of the tag is in progress                                *)
NextDispatching ==
  \/ (nEvents = 0 /\ TagEvents)
  \/ (Id("v1") \in Dispatching /\ TagEvents)
  \/ Step
  \/ Release
  \/ Tick

SpecDispatching == Init /\ [][NextDispatching]_vars

\* The event of handler h arrived while a release of the tag was in progress
\* (under SpecDispatching: every event but the first) and the handler went on
\* to processTag for that tag
ArrivedWhileDispatching(h) ==
  /\ h > 1
  /\ handlers[h].tag # NoTag
  /\ handlers[h].tag.ref = "v1"

\* C32: an event for an id that arrives while a release for that id is in
\* progress is ignored: it does not schedule another release for that id.
C32_EventWhileDispatchingIgnored ==
  \A h \in 1..Len(handlers) :
    ArrivedWhileDispatching(h) => handlers[h].outcome # "schedule"

\* The release in progress is not disturbed by such an event: its dispatch
\* keeps its timer and tag, launches its targets once and goes on to its end
C32_DispatchUndisturbed ==
  [][\A d \in 1..Len(dispatches) :
       /\ Len(dispatches') >= Len(dispatches)
       /\ dispatches'[d].timer = dispatches[d].timer
       /\ dispatches'[d].tag = dispatches[d].tag
       /\ dispatches'[d].invoked # dispatches[d].invoked => dispatches[d].invoked = <<>>
       /\ dispatches[d].stage = "done" => dispatches'[d].stage = "done"
       /\ dispatches[d].stage = "running" => dispatches'[d].stage \in {"running", "done"}]_vars

C32_Witness_ScheduledWhileDispatching ==
  \E h \in 1..Len(handlers), d \in 1..Len(dispatches) :
    /\ ArrivedWhileDispatching(h)
    /\ handlers[h].outcome = "schedule"
    /\ dispatches[d].id = Id(handlers[h].tag.ref)
    /\ dispatches[d].stage = "running"
    /\ scheduledReleases[dispatches[d].id] # 0

\* Timer t has neither been cancelled nor fired
Live(t) == timers[t].state = "live"

\* C33: for every id at most one release timer is live, and
\* scheduledReleases[id] is set exactly when that timer exists and is its
\* handle: a scheduled release is cancelled before its replacement is
\* scheduled, and a firing timer removes its own entry, never that of a newer
\* timer.
C33_OneLiveTimerPerId ==
  /\ \A t1, t2 \in 1..Len(timers) :
       (Live(t1) /\ Live(t2) /\ timers[t1].id = timers[t2].id) => t1 = t2
  /\ \A t \in 1..Len(timers) : Live(t) => scheduledReleases[timers[t].id] = t
  /\ \A id \in Ids :
       scheduledReleases[id] # 0 =>
         /\ scheduledReleases[id] \in 1..Len(timers)
         /\ Live(scheduledReleases[id])
         /\ timers[scheduledReleases[id]].id = id

\* C33, witness: a scheduled release was cancelled and its replacement is the
\* one live timer of the id, with the entry as its handle
C33_Witness_Replaced ==
  \E t2, t3 \in 1..Len(timers) :
    /\ t2 < t3
    /\ timers[t2].id = timers[t3].id
    /\ timers[t2].cancelled
    /\ Live(t3)
    /\ scheduledReleases[timers[t3].id] = t3

(***************************************************************************)
(* Publishing the crates of a workspace one after the other: utils.js      *)
(* forEachChained, cargo.js publishWorkspace and publishPackage            *)
(***************************************************************************)

\* What getPublishOrder returned: crates with distinct names, in publish order
PublishOrders ==
  {order \in SeqsUpTo(PackageNames, MaxPackages) :
     \A i, j \in 1..Len(order) : order[i] = order[j] => i = j}

\* How `cargo publish` of a crate ends
PublishOutcomes == {"resolves", "rejects"}

\* The promise the link of element i is chained to: Promise.resolve() for the
\* first element, the promise of the previous link otherwise
Prev(links, i) == IF i = 1 THEN "fulfilled" ELSE links[i - 1].promise

\* array.map in the place of the chain: every action starts at once
OnFulfilled_Unchained(prev) == TRUE

\* utils.js:37  prev.then(() => iteratee(...)): the callback runs once prev is
\* fulfilled, and only then
OnFulfilled(prev) == prev = "fulfilled"

\* utils.js:36-40  array.reduce builds the whole chain in the call: one pending
\* promise per element, no action started
ForEachChained(array) ==
  [i \in 1..Len(array) |-> [element |-> array[i], action |-> "idle", promise |-> "pending"]]

InitChain ==
  /\ EngineIdle
  /\ AuxIdle("chain")
  /\ \E crates \in PublishOrders, perform \in BOOLEAN :
       \E outcomes \in [1..Len(crates) -> PublishOutcomes] :
         chain = [crates |-> crates, outcomes |-> outcomes, perform |-> perform,
                  links |-> ForEachChained(crates), published |-> <<>>]

\* utils.js:37, cargo.js:153-160  the callback of link i runs: publishPackage
\* spawns `cargo publish` for the crate, or resolves at once in a dry run
ActionStarts(i) ==
  /\ i \in 1..Len(chain.links)
  /\ chain.links[i].action = "idle"
  /\ chain.links[i].promise = "pending"
  /\ OnFulfilled(Prev(chain.links, i))
  /\ chain' =
       IF chain.perform
       THEN [chain EXCEPT !.links[i].action = "running",
                          !.published = Append(@, chain.crates[i])]
       ELSE [chain EXCEPT !.links[i].action = "resolved",
                          !.links[i].promise = "fulfilled"]
  /\ UNCHANGED <<engineVars, release, targetRun, evaluation, publish, spawned, tempDirs, stores, downloads, targetCalls, lookups, debounce, dispatcher, statusFetch, resolution>>

\* utils.js:148-178  `cargo publish` of link i ends: the promise of the link
\* settles as the promise of spawn does
ActionSettles(i) ==
  /\ i \in 1..Len(chain.links)
  /\ chain.links[i].action = "running"
  /\ chain' =
       IF chain.outcomes[i] = "resolves"
       THEN [chain EXCEPT !.links[i].action = "resolved", !.links[i].promise = "fulfilled"]
       ELSE [chain EXCEPT !.links[i].action = "rejected", !.links[i].promise = "rejected"]
  /\ UNCHANGED <<engineVars, release, targetRun, evaluation, publish, spawned, tempDirs, stores, downloads, targetCalls, lookups, debounce, dispatcher, statusFetch, resolution>>

\* utils.js:37  prev is rejected: `then` has no rejection handler, the promise
\* of link i is rejected without its callback being called
RejectionPassedOn(i) ==
  /\ i \in 1..Len(chain.links)
  /\ chain.links[i].promise = "pending"
  /\ chain.links[i].action = "idle"
  /\ Prev(chain.links, i) = "rejected"
  /\ chain' = [chain EXCEPT !.links[i].promise = "rejected"]
  /\ UNCHANGED <<engineVars, release, targetRun, evaluation, publish, spawned, tempDirs, stores, downloads, targetCalls, lookups, debounce, dispatcher, statusFetch, resolution>>

NextChain ==
  \/ \E i \in 1..MaxPackages : ActionStarts(i)
  \/ \E i \in 1..MaxPackages : ActionSettles(i)
  \/ \E i \in 1..MaxPackages : RejectionPassedOn(i)

SpecChain == InitChain /\ [][NextChain]_vars

\* C35: the crates are published strictly one at a time in the order of
\* getPublishOrder: the action of an element has started only if the actions of
\* all elements before it have resolved, at most one action runs, the crates
\* published so far are the beginning of the order, and after a publish that
\* rejected no later crate is published.
C35_PublishedOneAtATimeInOrder ==
  /\ \A i \in 1..Len(chain.links) :
       chain.links[i].action # "idle" =>
         \A j \in 1..(i - 1) : chain.links[j].action = "resolved"
  /\ \A i, j \in 1..Len(chain.links) :
       (chain.links[i].action = "running" /\ chain.links[j].action = "running") => i = j
  /\ Len(chain.published) <= Len(chain.crates)
  /\ chain.published = SubSeq(chain.crates, 1, Len(chain.published))
  /\ \A i \in 1..Len(chain.links) :
       chain.links[i].action = "rejected" =>
         /\ Len(chain.published) = i
         /\ \A k \in (i + 1)..Len(chain.links) : chain.links[k].action = "idle"

\* C35, witness: the second crate is being published after the publish of
\* the first has resolved
C35_Witness_SecondAfterFirst ==
  /\ Len(chain.links) >= 2
  /\ chain.links[1].action = "resolved"
  /\ chain.links[2].action = "running"
  /\ chain.published = SubSeq(chain.crates, 1, 2)

\* A first publish that rejected has rejected the whole chain, with the second
\* crate never published
ChainRejectedAtFirst ==
  /\ Len(chain.links) >= 2
  /\ chain.links[1].action = "rejected"
  /\ chain.links[2].promise = "rejected"
  /\ chain.links[2].action = "idle"

(***************************************************************************)
(* Resolving the reference of a created tag: index.js getReference and     *)
(* getTagObject, and the sha the create handler hands to addTag            *)
(***************************************************************************)

\* Objects of the repository, named by their sha: two commits, an annotated
\* tag of each commit, and an annotated tag of an annotated tag
GitObjects == {"a1", "b2", "t1", "t2", "t3"}

ObjectType(sha) == IF sha \in Shas THEN "commit" ELSE "tag"

\* The object an annotated tag points to
TagTarget(sha) ==
  CASE sha = "t1" -> "a1"
    [] sha = "t2" -> "b2"
    [] sha = "t3" -> "t1"

\* The {type, sha} the hosting API reports for an object
ObjectOf(sha) == [type |-> ObjectType(sha), sha |-> sha]

\* The commit a reference resolves to, through however many annotated tags
RECURSIVE Peel(_)
Peel(sha) == IF ObjectType(sha) = "tag" THEN Peel(TagTarget(sha)) ELSE sha

InitResolution ==
  /\ EngineIdle
  /\ AuxIdle("resolution")
  /\ \E calls \in SeqsUpTo([ref : Refs, points : GitObjects], MaxLookups) :
       /\ calls # <<>>
       /\ \A i, j \in 1..Len(calls) : calls[i].ref = calls[j].ref => i = j
       /\ resolution = [calls |-> [i \in 1..Len(calls) |->
                                     [ref |-> calls[i].ref, points |-> calls[i].points,
                                      pc |-> "getReference", reference |-> ObjectOf("a1")]],
                        tags |-> <<>>]

\* index.js:91-100  gitdata.getReference answers with the object the ref points
\* to: for a tag object getTagObject is called, anything else is returned
GetReferenceReplies(i) ==
  /\ i \in 1..Len(resolution.calls)
  /\ resolution.calls[i].pc = "getReference"
  /\ LET object == ObjectOf(resolution.calls[i].points)
     IN resolution' = [resolution EXCEPT
          !.calls[i].reference = object,
          !.calls[i].pc = IF object.type = "tag" THEN "getTag" ELSE "addTag"]
  /\ UNCHANGED <<engineVars, release, targetRun, evaluation, publish, spawned, tempDirs, stores, downloads, targetCalls, lookups, debounce, dispatcher, statusFetch, chain>>

\* index.js:74-78  gitdata.getTag answers: response.data.object, the object the
\* tag object points to, is what getReference returns
GetTagReplies(i) ==
  /\ i \in 1..Len(resolution.calls)
  /\ resolution.calls[i].pc = "getTag"
  /\ resolution' = [resolution EXCEPT
       !.calls[i].reference = ObjectOf(TagTarget(resolution.calls[i].reference.sha)),
       !.calls[i].pc = "addTag"]
  /\ UNCHANGED <<engineVars, release, targetRun, evaluation, publish, spawned, tempDirs, stores, downloads, targetCalls, lookups, debounce, dispatcher, statusFetch, chain>>

\* index.js:384  addTag(context, ref, reference.sha), on a warm cache
TagAdded(i) ==
  /\ i \in 1..Len(resolution.calls)
  /\ resolution.calls[i].pc = "addTag"
  /\ resolution' = [resolution EXCEPT
       !.calls[i].pc = "done",
       !.tags = AddTag(@, resolution.calls[i].ref, resolution.calls[i].reference.sha)]
  /\ UNCHANGED <<engineVars, release, targetRun, evaluation, publish, spawned, tempDirs, stores, downloads, targetCalls, lookups, debounce, dispatcher, statusFetch, chain>>

NextResolution ==
  \/ \E i \in 1..MaxLookups : GetReferenceReplies(i)
  \/ \E i \in 1..MaxLookups : GetTagReplies(i)
  \/ \E i \in 1..MaxLookups : TagAdded(i)

SpecResolution == InitResolution /\ [][NextResolution]_vars

\* The object one step behind an annotated tag; a commit is its own
TagTarget_OrSelf(sha) == IF ObjectType(sha) = "tag" THEN TagTarget(sha) ELSE sha

\* What the ref of a cached tag points to
PointsOf(ref) ==
  resolution.calls[CHOOSE i \in 1..Len(resolution.calls) : resolution.calls[i].ref = ref].points

\* C36: the sha the create handler stores in the tag cache is the sha of the
\* commit the tag resolves to, never that of a tag object, also for an
\* annotated tag of an annotated tag.
C36_StoredShaIsCommit ==
  \A k \in 1..Len(resolution.tags) :
    /\ ObjectType(resolution.tags[k].sha) # "tag"
    /\ resolution.tags[k].sha = Peel(PointsOf(resolution.tags[k].ref))

\* The same for references that point to a commit or to an annotated tag of a
\* commit
C36_StoredShaIsCommitUnlessNested ==
  \A k \in 1..Len(resolution.tags) :
    ObjectType(TagTarget_OrSelf(PointsOf(resolution.tags[k].ref))) # "tag" =>
      /\ ObjectType(resolution.tags[k].sha) # "tag"
      /\ resolution.tags[k].sha = Peel(PointsOf(resolution.tags[k].ref))

C36_Witness_AnnotatedTagStoredAsCommit ==
  \E k \in 1..Len(resolution.tags) :
    PointsOf(resolution.tags[k].ref) = "t2" /\ resolution.tags[k].sha = "b2"

C36_Witness_NestedTagStoredAsTag ==
  \E k \in 1..Len(resolution.tags) :
    PointsOf(resolution.tags[k].ref) = "t3" /\ resolution.tags[k].sha = "t1"

(***************************************************************************)
(* Several tags of one commit                                              *)
(***************************************************************************)

(* The tags v1 and v2 are created at the same commit a1, whose checks report *)
(* success                                                                   *)
NextShared ==
  \/ \E ref \in Refs : CreateEvent(REF_TYPE_TAG, ref, "a1")
  \/ StatusEvent("a1", CtxCI, STATE_SUCCESS)
  \/ Step
  \/ Release
  \/ Tick

SpecShared == Init /\ [][NextShared]_vars

\* findTag of status handler h returns a tag in this step
FindsTag(h) ==
  /\ handlers[h].kind = "status"
  /\ handlers[h].pc \in {"config", "tags"}
  /\ handlers'[h].pc = "statuses"

\* Timers and entries of the ids other than `id` are the same after the step
OthersUntouched(id) ==
  /\ \A other \in Ids \ {id} : scheduledReleases'[other] = scheduledReleases[other]
  /\ \A t \in 1..Len(timers) : timers[t].id # id => timers'[t] = timers[t]
  /\ \A t \in (Len(timers) + 1)..Len(timers') : timers'[t].id = id

\* C37: a status event processes exactly one tag, the first entry of the
\* cached list with the sha of the event: that tag stays the handler's tag, the
\* statuses are requested for it, and the handler schedules or cancels for its
\* id alone, also when other cached tags have the same sha.
C37_StatusProcessesFirstMatch ==
  [][\A h \in 1..Len(handlers) :
       handlers[h].kind = "status" =>
         /\ (FindsTag(h) /\ OnlyHandler(h)) =>
              LET tags == loads'[handlers'[h].tags].tags
              IN \E i \in 1..Len(tags) :
                   /\ handlers'[h].tag = tags[i]
                   /\ tags[i].sha = handlers[h].sha
                   /\ \A j \in 1..(i - 1) : tags[j].sha # handlers[h].sha
         /\ handlers[h].tag # NoTag => handlers'[h].tag = handlers[h].tag
         /\ Processes(h) => OthersUntouched(Id(handlers[h].tag.ref))]_vars

\* C37, witness: two cached tags have the sha of a status event; its handler
\* has scheduled the release of the first and nothing is scheduled for the other
C37_Witness_SecondTagNotScheduled ==
  \E h \in 1..Len(handlers), p \in 1..Len(loads) :
    /\ handlers[h].kind = "status"
    /\ handlers[h].outcome = "schedule"
    /\ handlers[h].tags = p
    /\ Len(loads[p].tags) = 2
    /\ loads[p].tags[1] = handlers[h].tag
    /\ loads[p].tags[2].sha = handlers[h].sha
    /\ scheduledReleases[Id(loads[p].tags[1].ref)] # 0
    /\ scheduledReleases[Id(loads[p].tags[2].ref)] = 0

(***************************************************************************)
(* A tag retrieval that fails                                              *)
(***************************************************************************)

(* The events of one tag, with a hosting provider that may fail the          *)
(* retrieval of the tags                                                     *)
NextOutage ==
  \/ CreateEvent(REF_TYPE_TAG, "v1", "a1")
  \/ DeleteEvent(REF_TYPE_TAG, "v1")
  \/ StatusEvent("a1", CtxCI, STATE_SUCCESS)
  \/ Step
  \/ \E p \in 1..MaxEvents : PaginateFails(p)

SpecOutage == Init /\ [][NextOutage]_vars

\* Handler h has called getTags (inside addTag, removeTag or findTag)
CalledGetTags(h) == handlers[h].tags # 0

\* C38: once the first retrieval of the tags has failed, its rejected promise
\* stays in the tag cache: no other retrieval is started, and every addTag,
\* removeTag and findTag, before or after the failure, fails with the error of
\* that promise, having changed neither the list nor the scheduler.
C38_RejectedRetrievalStays ==
  (\E p \in 1..Len(loads) : loads[p].state = "rejected") =>
    /\ Len(loads) = 1
    /\ tagCache[Repo] = 1
    /\ loads[1] = [state |-> "rejected", tags |-> <<>>, waiters |-> <<>>]
    /\ \A h \in 1..Len(handlers) :
         /\ CalledGetTags(h) => (handlers[h].tags = 1 /\ handlers[h].pc = "failed")
         /\ handlers[h].pc \notin {"tags", "statuses", "statusesReply", "done"}
    /\ \A id \in Ids : scheduledReleases[id] = 0
    /\ timers = <<>>

\* C38, witness: the retrieval failed under a waiting create handler, and a
\* status handler that called findTag later has failed on the same promise
C38_Witness_LaterCallFailsToo ==
  /\ loads # <<>>
  /\ loads[1].state = "rejected"
  /\ \E h1, h2 \in 1..Len(handlers) :
       /\ h1 < h2
       /\ handlers[h1].pc = "failed" /\ handlers[h1].tags = 1
       /\ handlers[h2].pc = "failed" /\ handlers[h2].tags = 1
       /\ handlers[h2].kind = "status"

(***************************************************************************)
(* A request of the statuses that fails                                    *)
(***************************************************************************)

(* The events of one tag whose checks report success, with a hosting         *)
(* provider that may fail the request of the statuses                        *)
NextFetchFailure ==
  \/ CreateEvent(REF_TYPE_TAG, "v1", "a1")
  \/ StatusEvent("a1", CtxCI, STATE_SUCCESS)
  \/ Step
  \/ \E h \in 1..MaxEvents : StatusesFail(h)
  \/ Release
  \/ Tick

SpecFetchFailure == Init /\ [][NextFetchFailure]_vars

\* processTag of handler h ends in this step because getStatuses rejected
FetchFailed(h) == handlers[h].pc = "statusesReply" /\ handlers'[h].pc = "failed"

====
